---- MODULE Spec2Model ----
(***************************************************************************)
(* A model of the core of the Ilom WhatsApp bot:                           *)
(*   - the priority message queue (MessageQueue, utils/messageQueue),      *)
(*   - the sliding-window rate limiter (RateLimiter, utils/rateLimiter.js),*)
(*   - the command dispatcher (CommandHandler, handlers/commandHandler.js).*)
(* The code reads the clock (Date.now()) only to compare it with stored    *)
(* timestamps and to store it, so every stored timestamp t is kept as the  *)
(* difference t - Date.now(): a Tick action, one unit of time passing,     *)
(* lowers every stored timestamp by one.  One named queue, one rate-limit  *)
(* key and one dispatcher are modelled: the code keeps the state of        *)
(* different queue names and of different cache keys in separate map       *)
(* entries.                                                                *)
(***************************************************************************)
EXTENDS Integers, Sequences, FiniteSets, TLC

VARIABLES
    msgs,        \* the message objects ever created: object -> record, or NoMsg;
                 \* scheduledFor is kept as scheduledFor - Date.now()
    queue,       \* this.queues.get(q): sequence of object references
    processing,  \* this.processing.get(q): set of message ids
    inflight,    \* object -> execute-hook dispatches that have not called back
    timers,      \* time left on the pending setTimeout(processQueue) calls (0: due)
    immediate,   \* a setImmediate(processQueue) is pending
    paused,      \* this.delays.has(q)
    saved,       \* the cache holds queue_<q>: persistQueue stored the queue array in
                 \* the in-process store (useClones: false keeps the reference)
    events,      \* id -> number of message:processing / completed / failed / retry events
    removed,     \* ids that removeMessage or clearQueue took out of the queue
    lastWait,    \* object -> the wait (scheduledFor - Date.now()) given to it when last scheduled
    order,       \* the objects in the order of their first dispatch
    lastDrain,   \* the processQueue call of the latest step: what was ready, what it dispatched
    waiter,      \* the drain(q, timeout) call: its status, the time since it began, and
                 \* what the queue held when it was settled
    ownerNumbers, \* config.ownerNumbers, restricted to the sender
    whitelistedUsers, \* this.whitelistedUsers of AntiSpam, restricted to the sender
    cooldowns,   \* this.cooldowns: command name -> lastUsed - Date.now(), or Unset
    cacheStore,  \* the cache: key -> entry, or Missing
    allowedLog,  \* rate-limit type -> the allowed requests still inside the type's window
    checkedLog,  \* the checkSpam calls still inside the frequency window (time - Date.now())
    last,        \* the latest call: its arguments and what it returned and did
    otherPending, \* this.queues.get(other).length: the messages a second named queue holds
    backlog,     \* the latest health check emitted queue:backlog
    commands,    \* this.commands of CommandHandler: key -> descriptor, or NoCommand
    aliases,     \* this.aliases of CommandHandler: key -> command name, or NoName
    isInitialized, \* this.isInitialized of CommandHandler
    calls,       \* caller -> its checkLimit call in progress: what it has read, or Idle
    inboundLog   \* the inbound messages still inside the frequency window (time - Date.now())

qvars == <<msgs, queue, processing, inflight, timers, immediate, paused, saved,
           events, removed, lastWait, order, lastDrain, waiter>>

dvars_but_last == <<ownerNumbers, whitelistedUsers, cooldowns, cacheStore, allowedLog, checkedLog>>

dvars == <<dvars_but_last, last>>

bvars == <<otherPending, backlog>>

pvars == <<commands, aliases, isInitialized, calls, inboundLog>>

vars == <<qvars, dvars, bvars, pvars>>

(***************************************************************************)
(* Bounds of the model.                                                    *)
(***************************************************************************)
NObj == 6          \* message objects the model can create
MaxAge == 2        \* a queued message is followed until it is this long overdue
MaxOutstanding == 2  \* restoreQueue is followed while no message has this many dispatches outstanding
MaxViolations == 2 \* rate-limit violations recorded for the sender

Objs == 1..NObj
NoMsg == [id |-> 0]

(***************************************************************************)
(* Program constants (MessageQueue constructor).                           *)
(***************************************************************************)
MaxRetriesDefault == 3
MaxConcurrent == 5

Min(a, b) == IF a < b THEN a ELSE b
Max(a, b) == IF a > b THEN a ELSE b
Range(s) == {s[i] : i \in 1..Len(s)}

RECURSIVE Pow2(_)
Pow2(n) == IF n <= 0 THEN 1 ELSE 2 * Pow2(n - 1)

Allocated == {o \in Objs : msgs[o] # NoMsg}
NextObj == Cardinality(Allocated) + 1

(***************************************************************************)
(* queue.sort((a, b) => a.priority !== b.priority ? b.priority - a.priority *)
(*                      : a.scheduledFor - b.scheduledFor)                 *)
(* Array.prototype.sort is stable: an insertion sort that leaves equal     *)
(* elements in their order.                                                *)
(***************************************************************************)
\* The comparator with the priorities compared the other way round.
CompareBeforeAscending(a, b, m) ==
    IF m[a].priority # m[b].priority
    THEN m[a].priority < m[b].priority
    ELSE m[a].scheduledFor < m[b].scheduledFor

CompareBefore(a, b, m) ==
    IF m[a].priority # m[b].priority
    THEN m[a].priority > m[b].priority
    ELSE m[a].scheduledFor < m[b].scheduledFor

RECURSIVE InsertSorted(_, _, _)
InsertSorted(s, x, m) ==
    IF s = <<>> THEN <<x>>
    ELSE IF CompareBefore(x, s[Len(s)], m)
         THEN Append(InsertSorted(SubSeq(s, 1, Len(s) - 1), x, m), s[Len(s)])
         ELSE Append(s, x)

\* The sort left out: the list stays in the order of the pushes.
SortQueueSkipped(s, m) == s

RECURSIVE SortQueue(_, _)
SortQueue(s, m) ==
    IF s = <<>> THEN <<>>
    ELSE InsertSorted(SortQueue(SubSeq(s, 1, Len(s) - 1), m), s[Len(s)], m)

(***************************************************************************)
(* processQueue: the ready messages (scheduledFor - now <= 0, id not in    *)
(* the processing set), and the ones it dispatches.                        *)
(***************************************************************************)
\* The filter without the test of scheduledFor.
ReadyMessagesAnyTime(q, proc, m) ==
    SelectSeq(q, LAMBDA o : m[o].id \notin proc)

ReadyMessages(q, proc, m) ==
    SelectSeq(q, LAMBDA o : m[o].scheduledFor <= 0 /\ m[o].id \notin proc)

Batch(q, proc, m) ==
    IF Cardinality(proc) >= MaxConcurrent THEN <<>>
    ELSE LET ready == ReadyMessages(q, proc, m)
         IN  SubSeq(ready, 1, Min(Len(ready), MaxConcurrent - Cardinality(proc)))

CountIn(s, P(_)) == Cardinality({i \in 1..Len(s) : P(s[i])})

\* queue.findIndex(m => m.id === id), then splice: the first entry with that id goes.
RECURSIVE RemoveFirstId(_, _, _)
RemoveFirstId(q, id, m) ==
    IF q = <<>> THEN <<>>
    ELSE IF m[Head(q)].id = id THEN Tail(q)
         ELSE <<Head(q)>> \o RemoveFirstId(Tail(q), id, m)

\* delay * Math.pow(2, attempts - 1)
BackoffConstant(delay, attempts) == delay

Backoff(delay, attempts) == delay * Pow2(attempts - 1)

(***************************************************************************)
(* processQueue followed by processMessage for each message of the batch,  *)
(* up to the await of the execute hook: processing.add(id), attempts++,    *)
(* message:processing emitted, message:execute emitted.  q, m, proc, ev    *)
(* are the values the caller has produced so far.                          *)
(***************************************************************************)
ProcessQueue(q, m, proc, ev) ==
    LET batch == Batch(q, proc, m)
        sent == Range(batch)
    IN  /\ msgs' = [o \in Objs |->
                      IF o \in sent THEN [m[o] EXCEPT !.attempts = @ + 1] ELSE m[o]]
        /\ processing' = proc \cup {m[o].id : o \in sent}
        /\ inflight' = [o \in Objs |-> inflight[o] + (IF o \in sent THEN 1 ELSE 0)]
        /\ events' = [i \in Objs |->
                        [ev[i] EXCEPT !.processing =
                            @ + CountIn(batch, LAMBDA o : m[o].id = i)]]
        /\ order' = order \o SelectSeq(batch, LAMBDA o : o \notin Range(order))
        /\ lastDrain' = [cand |-> {o \in Range(q) :
                                     m[o].scheduledFor <= 0 /\ inflight[o] = 0},
                         sent |-> batch]
        /\ queue' = q

NoDrain == [cand |-> {}, sent |-> <<>>]

\* No drain(q, timeout) call has been made.
NoWaiter == [status |-> "idle", elapsed |-> 0, timeout |-> 0, pending |-> 0, inflight |-> 0]

\* The scheduledFor of a message object that is no longer in the queue is never
\* read again (handleFailure overwrites it before the sort reads it).
Live(o, q, infl) == o \in Range(q)

Collect(m, q, infl) ==
    [o \in Objs |-> IF m[o] # NoMsg /\ ~Live(o, q, infl)
                    THEN [m[o] EXCEPT !.scheduledFor = 0] ELSE m[o]]

InitQ ==
    /\ msgs = [o \in Objs |-> NoMsg]
    /\ queue = <<>>
    /\ processing = {}
    /\ inflight = [o \in Objs |-> 0]
    /\ timers = {}
    /\ immediate = FALSE
    /\ paused = FALSE
    /\ saved = FALSE
    /\ events = [i \in Objs |-> [processing |-> 0, completed |-> 0, failed |-> 0, retry |-> 0]]
    /\ removed = {}
    /\ lastWait = [o \in Objs |-> 0]
    /\ order = <<>>
    /\ lastDrain = NoDrain
    /\ waiter = NoWaiter
    /\ otherPending = 0
    /\ backlog = FALSE

(***************************************************************************)
(* addMessage(q, message, {priority, delay, maxRetries, id}).              *)
(***************************************************************************)
AddMessage(id, pr, dl, mr) ==
    LET o == NextObj
        m1 == [msgs EXCEPT ![o] = [id |-> id, priority |-> pr, delay |-> dl,
                                   maxRetries |-> mr, attempts |-> 0,
                                   scheduledFor |-> dl]]
        q1 == SortQueue(Append(queue, o), m1)
    IN  /\ o \in Objs
        /\ lastWait' = [lastWait EXCEPT ![o] = dl]
        /\ ProcessQueue(q1, m1, processing, events)
        /\ UNCHANGED <<timers, immediate, paused, saved, removed>>
        /\ UNCHANGED <<waiter, dvars, bvars, pvars>>

(***************************************************************************)
(* The execute hook calls back: callback(error, result) resolves the       *)
(* promise processMessage awaits, and handleSuccess or handleFailure runs. *)
(***************************************************************************)
\* if (message.attempts < message.maxRetries): retry, else fail for good.
ShouldRetryOffByOne(m) == m.attempts <= m.maxRetries

ShouldRetry(m) == m.attempts < m.maxRetries

HandleSuccess(o, infl) ==
    LET q1 == RemoveFirstId(queue, msgs[o].id, msgs)
    IN  /\ queue' = q1
        /\ msgs' = Collect(msgs, q1, infl)
        /\ processing' = processing \ {msgs[o].id}
        /\ events' = [events EXCEPT ![msgs[o].id].completed = @ + 1]
        /\ immediate' = TRUE
        /\ UNCHANGED <<timers, lastWait>>

HandleFailure(o, infl) ==
    /\ processing' = processing \ {msgs[o].id}
    /\ IF ShouldRetry(msgs[o])
       THEN LET m1 == [msgs EXCEPT ![o].scheduledFor =
                           Backoff(msgs[o].delay, msgs[o].attempts)]
            IN  /\ msgs' = Collect(m1, queue, infl)
                /\ queue' = SortQueue(queue, m1)
                /\ events' = [events EXCEPT ![msgs[o].id].retry = @ + 1]
                /\ timers' = timers \cup {msgs[o].delay}
                /\ lastWait' = [lastWait EXCEPT ![o] = m1[o].scheduledFor]
       ELSE LET q1 == RemoveFirstId(queue, msgs[o].id, msgs)
            IN  /\ queue' = q1
                /\ msgs' = Collect(msgs, q1, infl)
                /\ events' = [events EXCEPT ![msgs[o].id].failed = @ + 1]
                /\ UNCHANGED <<timers, lastWait>>
    /\ immediate' = TRUE

Callback(o, ok) ==
    LET infl == [inflight EXCEPT ![o] = @ - 1]
    IN  /\ o \in Allocated
        /\ inflight[o] > 0
        /\ inflight' = infl
        /\ IF ok THEN HandleSuccess(o, infl) ELSE HandleFailure(o, infl)
        /\ lastDrain' = NoDrain
        /\ UNCHANGED <<paused, saved, removed, order>>
        /\ UNCHANGED <<waiter, dvars, bvars, pvars>>

(***************************************************************************)
(* The deferred processQueue calls: setImmediate, setTimeout, and the      *)
(* setInterval of setupHealthCheck.                                        *)
(***************************************************************************)
RunImmediate ==
    /\ immediate
    /\ immediate' = FALSE
    /\ ProcessQueue(queue, msgs, processing, events)
    /\ UNCHANGED <<timers, paused, saved, removed, lastWait>>
    /\ UNCHANGED <<waiter, dvars, bvars, pvars>>

RunTimer ==
    /\ 0 \in timers
    /\ timers' = timers \ {0}
    /\ ProcessQueue(queue, msgs, processing, events)
    /\ UNCHANGED <<immediate, paused, saved, removed, lastWait>>
    /\ UNCHANGED <<waiter, dvars, bvars, pvars>>

BacklogThreshold == 1000

\* getStats().totalPending: the sum of the pending counts of the named queues
TotalPending == Len(queue) + otherPending

\* stats.totalPending > 1000
BacklogDetected == TotalPending > BacklogThreshold

\* A health check that drains only a queue that has something in flight.
HealthCheckBusyOnly ==
    /\ backlog' = BacklogDetected
    /\ IF Len(queue) > 0 /\ processing # {}
       THEN ProcessQueue(queue, msgs, processing, events)
       ELSE UNCHANGED <<msgs, queue, processing, inflight, events, order, lastDrain>>
    /\ UNCHANGED <<timers, immediate, paused, saved, removed, lastWait>>
    /\ UNCHANGED <<waiter, dvars, otherPending, pvars>>

\* setInterval callback of setupHealthCheck: queue:backlog is emitted when the
\* queues together hold more than 1000 messages, and a queue that has messages
\* and nothing in flight is drained.  The messages of the second queue are not
\* due, so draining it dispatches nothing.
HealthCheck ==
    /\ backlog' = BacklogDetected
    /\ IF Len(queue) > 0 /\ processing = {}
       THEN ProcessQueue(queue, msgs, processing, events)
       ELSE UNCHANGED <<msgs, queue, processing, inflight, events, order, lastDrain>>
    /\ UNCHANGED <<timers, immediate, paused, saved, removed, lastWait>>
    /\ UNCHANGED <<waiter, dvars, otherPending, pvars>>

\* addMessage(other, message, {delay}) for the second named queue, with a delay
\* longer than the time the model follows: the message is queued and stays.
AddMessageOther ==
    /\ otherPending' = otherPending + 1
    /\ UNCHANGED <<qvars, dvars, backlog, pvars>>

RemoveMessage(id) ==
    /\ \E i \in 1..Len(queue) : msgs[queue[i]].id = id
    /\ queue' = RemoveFirstId(queue, id, msgs)
    /\ msgs' = Collect(msgs, queue', inflight)
    /\ removed' = removed \cup {id}
    /\ lastDrain' = NoDrain
    /\ UNCHANGED <<processing, inflight, timers, immediate, paused, saved,
                   events, lastWait, order>>
    /\ UNCHANGED <<waiter, dvars, bvars, pvars>>

ClearQueue ==
    /\ queue # <<>>
    /\ queue' = <<>>
    /\ msgs' = Collect(msgs, <<>>, inflight)
    /\ removed' = removed \cup {msgs[o].id : o \in Range(queue)}
    /\ lastDrain' = NoDrain
    /\ UNCHANGED <<processing, inflight, timers, immediate, paused, saved,
                   events, lastWait, order>>
    /\ UNCHANGED <<waiter, dvars, bvars, pvars>>

(***************************************************************************)
(* pauseQueue(q) marks the queue in this.delays, resumeQueue(q) takes the  *)
(* mark away and drains.                                                   *)
(***************************************************************************)
PauseQueue ==
    /\ paused' = TRUE
    /\ lastDrain' = NoDrain
    /\ UNCHANGED <<msgs, queue, processing, inflight, timers, immediate, saved,
                   events, removed, lastWait, order>>
    /\ UNCHANGED <<waiter, dvars, bvars, pvars>>

ResumeQueue ==
    /\ paused' = FALSE
    /\ ProcessQueue(queue, msgs, processing, events)
    /\ UNCHANGED <<timers, immediate, saved, removed, lastWait>>
    /\ UNCHANGED <<waiter, dvars, bvars, pvars>>

(***************************************************************************)
(* drain(q, timeout): checkEmpty runs at once and then every 100 ms until  *)
(* getQueueStatus reports nothing pending and nothing processing (the      *)
(* promise resolves) or more than timeout has passed (it is rejected).     *)
(* pending and inflight keep what the queue held when the promise was      *)
(* settled: the length of the queue and the dispatches not called back.    *)
(***************************************************************************)
RECURSIVE SumUpTo(_, _)
SumUpTo(f, n) == IF n = 0 THEN 0 ELSE f[n] + SumUpTo(f, n - 1)

Outstanding == SumUpTo(inflight, NObj)

\* getQueueStatus(q): pending and processing
StatusEmpty == Len(queue) = 0 /\ Cardinality(processing) = 0

CheckEmpty(w) ==
    IF StatusEmpty
    THEN [w EXCEPT !.status = "resolved", !.pending = Len(queue), !.inflight = Outstanding]
    ELSE IF w.elapsed > w.timeout
    THEN [w EXCEPT !.status = "rejected", !.pending = Len(queue), !.inflight = Outstanding]
    ELSE [w EXCEPT !.status = "waiting"]

Drain(timeout) ==
    /\ waiter.status # "waiting"
    /\ waiter' = CheckEmpty([NoWaiter EXCEPT !.timeout = timeout])
    /\ lastDrain' = NoDrain
    /\ UNCHANGED <<msgs, queue, processing, inflight, timers, immediate, paused, saved,
                   events, removed, lastWait, order>>
    /\ UNCHANGED <<dvars, bvars, pvars>>

\* setTimeout(checkEmpty, 100)
DrainPoll ==
    /\ waiter.status = "waiting"
    /\ waiter' = CheckEmpty(waiter)
    /\ lastDrain' = NoDrain
    /\ UNCHANGED <<msgs, queue, processing, inflight, timers, immediate, paused, saved,
                   events, removed, lastWait, order>>
    /\ UNCHANGED <<dvars, bvars, pvars>>

(***************************************************************************)
(* One unit of time passes.                                                *)
(***************************************************************************)
TickQ ==
    /\ \A o \in Range(queue) : msgs[o].scheduledFor > -MaxAge
    /\ msgs' = [o \in Objs |-> IF msgs[o] # NoMsg /\ Live(o, queue, inflight)
                               THEN [msgs[o] EXCEPT !.scheduledFor = @ - 1]
                               ELSE msgs[o]]
    /\ timers' = {Max(t - 1, 0) : t \in timers}
    /\ lastDrain' = NoDrain
    /\ waiter' = IF waiter.status = "waiting"
                 THEN [waiter EXCEPT !.elapsed = Min(@ + 1, waiter.timeout + 1)]
                 ELSE waiter
    /\ UNCHANGED <<queue, processing, inflight, immediate, paused, saved,
                   events, removed, lastWait, order>>
    /\ UNCHANGED <<dvars, bvars, pvars>>

(***************************************************************************)
(* persistQueue / restoreQueue through the cache.  The in-process store    *)
(* keeps the reference to the queue array, so restoreQueue installs the    *)
(* same array again, replaces the processing set by an empty one and       *)
(* drains.                                                                 *)
(***************************************************************************)
PersistQueue ==
    /\ ~saved
    /\ saved' = TRUE
    /\ lastDrain' = NoDrain
    /\ UNCHANGED <<msgs, queue, processing, inflight, timers, immediate, paused,
                   events, removed, lastWait, order>>
    /\ UNCHANGED <<waiter, dvars, bvars, pvars>>

RestoreQueue ==
    /\ saved
    /\ \A o \in Objs : inflight[o] < MaxOutstanding
    /\ ProcessQueue(queue, msgs, {}, events)
    /\ UNCHANGED <<timers, immediate, paused, saved, removed, lastWait>>
    /\ UNCHANGED <<waiter, dvars, bvars, pvars>>

(***************************************************************************)
(* The cache (CacheManager over the in-process store).  An entry keeps its *)
(* value, the time it was set (as setAt - Date.now()) and its time to live *)
(* in ms; the store drops an entry once more than its time to live has     *)
(* passed.  One sender is modelled, so a key is the key's prefix and the   *)
(* rate-limit type: ratelimit_<type>_<sender>, violations_<sender>,        *)
(* tempban_<sender>, spam_freq_<sender>, spam_violations_<sender>.         *)
(***************************************************************************)
Sender == "sender"

Missing == [ttl |-> -1]

RateKey(type) == <<"ratelimit", type>>
ViolationsKey == <<"violations", "">>
TempBanKey == <<"tempban", "">>
SpamFreqKey == <<"spam_freq", "">>
SpamViolationsKey == <<"spam_violations", "">>
SpamContentKey == <<"spam_content", "">>

(***************************************************************************)
(* CacheManager.get and CacheManager.set catch whatever the store throws:  *)
(* a failed read answers null (the caller's `|| []` makes it the empty     *)
(* list), a failed write answers false and stores nothing.  fault names    *)
(* the store operations that fail during one call.                         *)
(***************************************************************************)
CacheFaults ==
    [none |-> {}, read |-> {"get"}, write |-> {"set"}, both |-> {"get", "set"}]

\* await cache.get(key) || dflt
CacheGetIn(c, key, dflt, fault) ==
    IF "get" \in CacheFaults[fault] \/ c[key] = Missing THEN dflt ELSE c[key].val

\* cache.set(key, value, ttl): ttl is in seconds
CacheSetIn(c, key, value, ttl, fault) ==
    IF "set" \in CacheFaults[fault] THEN c
    ELSE [c EXCEPT ![key] = [val |-> value, setAt |-> 0, ttl |-> ttl * 1000]]

\* cache.del(key)
CacheDel(c, key) == [c EXCEPT ![key] = Missing]

CacheGet(c, key, dflt) == CacheGetIn(c, key, dflt, "none")

CacheSet(c, key, value, ttl) == CacheSetIn(c, key, value, ttl, "none")

\* Math.ceil(a / b) for b > 0

CeilDiv(a, b) == 0 - ((0 - a) \div b)

(***************************************************************************)
(* RateLimiter.  A limit is {max, window}; NoLimit stands for the          *)
(* customLimit argument left out.                                          *)
(***************************************************************************)
DefaultLimits ==
    [messages |-> [max |-> 20, window |-> 60000],
     commands |-> [max |-> 10, window |-> 60000],
     media |-> [max |-> 5, window |-> 300000],
     api |-> [max |-> 100, window |-> 3600000]]

NoLimit == [max |-> -1, window |-> -1]

\* customLimit || this.defaultLimits[type] || this.defaultLimits.messages
LimitFor(type, customLimit) ==
    IF customLimit # NoLimit THEN customLimit
    ELSE IF type \in DOMAIN DefaultLimits THEN DefaultLimits[type]
    ELSE DefaultLimits.messages

ViolationsToBan == 5
ViolationsTtl == 3600
BanDuration == 3600000

\* temporaryBan(userId, duration)
TemporaryBanIn(c, duration, fault) ==
    CacheSetIn(c, TempBanKey, [bannedAt |-> 0, duration |-> duration],
               CeilDiv(duration, 1000), fault)

TemporaryBan(c, duration) == TemporaryBanIn(c, duration, "none")

\* recordViolation(userId, type).  The store hands out the stored array itself
\* (useClones: false), so the push changes the stored list even when the write
\* that follows fails.
RecordViolationIn(c, type, fault) ==
    LET stored == "get" \notin CacheFaults[fault] /\ c[ViolationsKey] # Missing
        violations == Append(CacheGetIn(c, ViolationsKey, <<>>, fault),
                             [type |-> type, timestamp |-> 0])
        pushed == IF stored THEN [c EXCEPT ![ViolationsKey].val = violations] ELSE c
        c1 == CacheSetIn(pushed, ViolationsKey, violations, ViolationsTtl, fault)
    IN  IF Len(violations) >= ViolationsToBan
        THEN TemporaryBanIn(c1, BanDuration, fault)
        ELSE c1

RecordViolation(c, type) == RecordViolationIn(c, type, "none")

\* now - banData.bannedAt > banData.duration
BanExpiredExclusive(elapsed, duration) == elapsed > duration

\* now - banData.bannedAt >= banData.duration
BanExpired(elapsed, duration) == elapsed >= duration

\* isTemporaryBanned(userId): false, or {banned: true, remainingTime}
IsTemporaryBanned(c) ==
    LET banData == CacheGet(c, TempBanKey, Missing)
    IN  IF banData = Missing
        THEN [banned |-> FALSE, remainingTime |-> 0, cache |-> c]
        ELSE IF BanExpired(0 - banData.bannedAt, banData.duration)
        THEN [banned |-> FALSE, remainingTime |-> 0, cache |-> CacheDel(c, TempBanKey)]
        ELSE [banned |-> TRUE,
              remainingTime |-> banData.duration - (0 - banData.bannedAt),
              cache |-> c]

\* now - timestamp <= limit.window
WithinWindowInclusive(timestamp, window) == 0 - timestamp <= window

\* now - timestamp < limit.window
WithinWindow(timestamp, window) == 0 - timestamp < window

\* validRequests[validRequests.length - 1] + limit.window - now
ResetTimeNewest(validRequests, window) == validRequests[Len(validRequests)] + window

\* validRequests[0] + limit.window - now
ResetTime(validRequests, window) == validRequests[1] + window

\* checkLimit(userId, type, customLimit), in its two parts: up to the await of
\* cache.get, which reads the stored list, and from there on, with the list
\* that was read.  st is the state the caller has produced so far: the cache and
\* the log of allowed requests.  No cache call rejects, so the catch block of
\* checkLimit is never entered.
CheckLimitRead(c, type, fault) == CacheGetIn(c, RateKey(type), <<>>, fault)

CheckLimitWrite(st, type, customLimit, fault, requests) ==
    LET limit == LimitFor(type, customLimit)
        validRequests == SelectSeq(requests,
                                   LAMBDA ts : WithinWindow(ts, limit.window))
    IN  IF Len(validRequests) >= limit.max
        THEN [allowed |-> FALSE, remaining |-> 0,
              resetTime |-> ResetTime(validRequests, limit.window),
              st |-> [st EXCEPT !.cache = RecordViolationIn(st.cache, type, fault)]]
        ELSE LET pushed == Append(validRequests, 0)
             IN  [allowed |-> TRUE, remaining |-> limit.max - Len(pushed),
                  resetTime |-> ResetTime(pushed, limit.window),
                  st |-> [st EXCEPT
                            !.cache = CacheSetIn(st.cache, RateKey(type), pushed,
                                                 CeilDiv(limit.window, 1000), fault),
                            !.log = [@ EXCEPT ![type] = Append(@, 0)]]]

\* A checkLimit call that no other call interleaves with.
CheckLimitIn(st, type, customLimit, fault) ==
    CheckLimitWrite(st, type, customLimit, fault, CheckLimitRead(st.cache, type, fault))

CheckLimit(st, type, customLimit) == CheckLimitIn(st, type, customLimit, "none")

(***************************************************************************)
(* AntiSpam.  A severity is kept in tenths (12 stands for 1.2), so that    *)
(* the quotients the code computes stay integers; a wait time is in ms.    *)
(* The text heuristics (repeated content, capitals, repeated characters,   *)
(* mentions, urls, suspicious patterns) are regular-expression tests of    *)
(* the message text: a call is given the indicators they report, in the    *)
(* order checkSpam runs them.  The dispatcher calls checkSpam without a    *)
(* context, so text is undefined and only the frequency check can report   *)
(* spam.  The sender is not whitelisted.                                   *)
(***************************************************************************)
SpamMaxMessages == 5
SpamTimeWindow == 10000
SpamFreqTtl == 60
SpamViolationWindow == 3600000
SpamViolationsTtl == 3600
FrequencySeverityCap == 30     \* Math.min(..., 3)
DefaultSeverity == 10          \* indicator.severity || 1
SeverityCap == 50              \* Math.min(totalSeverity, 5)
BanThreshold == 5
WarningThreshold == 3
BanAverageSeverity == 30       \* avgSeverity > 3
WarnSeverity == 20             \* severity > 2
WaitPerTenth == 500            \* severity * 5000
MaxWaitTime == 30000
SpamContentWindow == 300000
SpamContentTtl == 300
MaxContentHistory == 20
IdenticalSimilarity == 10     \* calculateSimilarity answers 1 for equal texts
NoContent == 0

\* recentMessages.length >= this.settings.maxMessages
TooFrequentInclusive(n) == n >= SpamMaxMessages

\* recentMessages.length > this.settings.maxMessages
TooFrequent(n) == n > SpamMaxMessages

\* checkMessageFrequency(userId, message)
CheckMessageFrequencyIn(c, fault) ==
    LET messages == CacheGetIn(c, SpamFreqKey, <<>>, fault)
        recentMessages == Append(SelectSeq(messages,
                                     LAMBDA ts : 0 - ts < SpamTimeWindow), 0)
    IN  [isSpam |-> TooFrequent(Len(recentMessages)),
         reason |-> "message_frequency",
         severity |-> Min((Len(recentMessages) * 10) \div SpamMaxMessages,
                          FrequencySeverityCap),
         cache |-> CacheSetIn(c, SpamFreqKey, recentMessages, SpamFreqTtl, fault)]

CheckMessageFrequency(c) == CheckMessageFrequencyIn(c, "none")

\* checkRepeatedContent(userId, text).  content stands for the text: NoContent
\* for a text that is missing or shorter than 10 characters, and otherwise a
\* token; equal tokens are texts of similarity 1, different tokens texts of
\* similarity at most maxSimilarity.
CheckRepeatedContent(c, content, fault) ==
    LET previousMessages == CacheGetIn(c, SpamContentKey, <<>>, fault)
        recentMessages == SelectSeq(previousMessages,
                              LAMBDA m : 0 - m.timestamp < SpamContentWindow)
        pushed == Append(recentMessages, [content |-> content, timestamp |-> 0])
        kept == IF Len(pushed) > MaxContentHistory
                THEN SubSeq(pushed, Len(pushed) - MaxContentHistory + 1, Len(pushed))
                ELSE pushed
    IN  IF content = NoContent
        THEN [isSpam |-> FALSE, reason |-> "", severity |-> 0, cache |-> c]
        ELSE IF \E i \in 1..Len(recentMessages) : recentMessages[i].content = content
        THEN [isSpam |-> TRUE, reason |-> "repeated_content",
              severity |-> IdenticalSimilarity, cache |-> c]
        ELSE [isSpam |-> FALSE, reason |-> "", severity |-> 0,
              cache |-> CacheSetIn(c, SpamContentKey, kept, SpamContentTtl, fault)]

RECURSIVE SumSeverity(_)
SumSeverity(indicators) ==
    IF indicators = <<>> THEN 0
    ELSE (IF Head(indicators).severity # 0 THEN Head(indicators).severity
          ELSE DefaultSeverity) + SumSeverity(Tail(indicators))

RECURSIVE MaxSeverity(_)
MaxSeverity(indicators) ==
    IF indicators = <<>> THEN 0
    ELSE Max(IF Head(indicators).severity # 0 THEN Head(indicators).severity
             ELSE DefaultSeverity, MaxSeverity(Tail(indicators)))

\* The largest of the severities rather than their sum.
CalculateSeverityLargest(indicators) == Min(MaxSeverity(indicators), SeverityCap)

\* calculateSeverity(indicators)
CalculateSeverity(indicators) == Min(SumSeverity(indicators), SeverityCap)

\* The violation left unrecorded.
RecordSpamViolationSkipped(c, severity, fault) == c

\* recordViolation(userId, indicators, severity) of AntiSpam.  The push is made on
\* the stored array itself (useClones: false); the filtered copy is written.
RecordSpamViolationIn(c, severity, fault) ==
    LET stored == "get" \notin CacheFaults[fault] /\ c[SpamViolationsKey] # Missing
        violations == Append(CacheGetIn(c, SpamViolationsKey, <<>>, fault),
                             [timestamp |-> 0, severity |-> severity])
        pushed == IF stored THEN [c EXCEPT ![SpamViolationsKey].val = violations] ELSE c
        recentViolations == SelectSeq(violations,
                                LAMBDA v : 0 - v.timestamp < SpamViolationWindow)
    IN  CacheSetIn(pushed, SpamViolationsKey, recentViolations, SpamViolationsTtl, fault)

RecordSpamViolation(c, severity) == RecordSpamViolationIn(c, severity, "none")

RECURSIVE SumOf(_)
SumOf(violations) ==
    IF violations = <<>> THEN 0 ELSE Head(violations).severity + SumOf(Tail(violations))

\* The action determineAction computes from the violations and the severity.
\* avgSeverity > 3 is sum / count > 3; with no violation the quotient is NaN and
\* the comparison false.
ActionFor(recentViolations, severity) ==
    LET violationCount == Len(recentViolations)
    IN  IF violationCount >= BanThreshold
           \/ (violationCount > 0
               /\ SumOf(recentViolations) > BanAverageSeverity * violationCount)
        THEN "ban"
        ELSE IF violationCount >= WarningThreshold \/ severity > WarnSeverity
        THEN "warn"
        ELSE "throttle"

\* determineAction(userId, severity), once its promise has resolved
DetermineActionIn(c, severity, fault) ==
    ActionFor(SelectSeq(CacheGetIn(c, SpamViolationsKey, <<>>, fault),
                        LAMBDA v : 0 - v.timestamp < SpamViolationWindow),
              severity)

DetermineAction(c, severity) == DetermineActionIn(c, severity, "none")

\* calculateWaitTime(severity)
CalculateWaitTime(severity) == Min(severity * WaitPerTenth, MaxWaitTime)

\* The value of a call of an async function that is not awaited: a promise,
\* which is no string and equals none.
Promise(v) == [promise |-> TRUE, value |-> v]

NoText == <<>>

\* The context argument left out, as the message router and the dispatcher
\* call checkSpam: isGroup, isGroupAdmin and text are undefined.
NoContext ==
    [isGroup |-> FALSE, isGroupAdmin |-> FALSE, content |-> NoContent, text |-> NoText]

\* No store operation fails; config.antiSpam.checkAdmins is not set.
Healthy == [fault |-> "none", checkAdmins |-> FALSE]

\* What checkSpam returns from one of its two exemptions.
Exempt(c, reason) ==
    [isSpam |-> FALSE, reason |-> reason, cache |-> c, severity |-> 0,
     indicators |-> <<>>, action |-> Promise("none"), waitTime |-> 0,
     evaluated |-> FALSE]

\* checkSpam(userId, message, context).  context.text is given as content (for
\* checkRepeatedContent) and as text, the indicators the other text heuristics
\* report for it; env says which store operations fail during the call and
\* what config.antiSpam.checkAdmins is.  No cache call rejects, so the catch
\* block of checkSpam is never entered.
CheckSpamIn(c, context, env) ==
    IF Sender \in whitelistedUsers THEN Exempt(c, "whitelisted")
    ELSE IF context.isGroup /\ context.isGroupAdmin /\ ~env.checkAdmins
    THEN Exempt(c, "admin_exempt")
    ELSE CHOOSE res \in
           {LET spamIndicators ==
                    (IF f.isSpam THEN <<[reason |-> f.reason, severity |-> f.severity]>>
                     ELSE <<>>)
                    \o (IF r.isSpam THEN <<[reason |-> r.reason, severity |-> r.severity]>>
                        ELSE <<>>)
                    \o context.text
                severity == CalculateSeverity(spamIndicators)
                recorded == RecordSpamViolationIn(r.cache, severity, env.fault)
                action == Promise(DetermineActionIn(recorded, severity, env.fault))
            IN  IF Len(spamIndicators) = 0
                THEN [isSpam |-> FALSE, reason |-> "", cache |-> r.cache, severity |-> 0,
                      indicators |-> <<>>, action |-> Promise("none"), waitTime |-> 0,
                      evaluated |-> TRUE]
                ELSE [isSpam |-> TRUE, reason |-> "", cache |-> recorded,
                      severity |-> severity,
                      indicators |-> [i \in 1..Len(spamIndicators) |->
                                        spamIndicators[i].reason],
                      action |-> action,
                      waitTime |-> IF ~action.promise /\ action.value = "throttle"
                                   THEN CalculateWaitTime(severity) ELSE 0,
                      evaluated |-> TRUE] :
              f \in {CheckMessageFrequencyIn(c, env.fault)},
              r \in {CheckRepeatedContent(CheckMessageFrequencyIn(c, env.fault).cache,
                                          context.content, env.fault)}} : TRUE

\* checkSpam(userId, message, {text}): text is what the text heuristics report
\* for context.text.
CheckSpamWith(c, text) == CheckSpamIn(c, [NoContext EXCEPT !.text = text], Healthy)

CheckSpam(c) == CheckSpamWith(c, NoText)

(***************************************************************************)
(* CommandHandler.  The registry holds three commands, as loadCommands     *)
(* would have set them up from the commands directory (category is the     *)
(* directory name and filePath names the file; cooldown 0, args TRUE,      *)
(* minArgs/maxArgs 0 and typing TRUE stand for the field being left out).  *)
(***************************************************************************)
Commands ==
    [ping |-> [name |-> "ping", filePath |-> "ping", aliases |-> {"p"}, execute |-> TRUE,
               permissions |-> <<>>, category |-> "general", cooldown |-> 3,
               args |-> FALSE, minArgs |-> 0, maxArgs |-> 0, typing |-> TRUE],
     kick |-> [name |-> "kick", filePath |-> "kick", aliases |-> {}, execute |-> TRUE,
               permissions |-> <<"owner", "admin">>, category |-> "admin", cooldown |-> 0,
               args |-> TRUE, minArgs |-> 1, maxArgs |-> 1, typing |-> TRUE],
     eval |-> [name |-> "eval", filePath |-> "eval", aliases |-> {}, execute |-> TRUE,
               permissions |-> <<"owner", "admin">>, category |-> "owner", cooldown |-> 2,
               args |-> TRUE, minArgs |-> 0, maxArgs |-> 0, typing |-> FALSE]]

CmdNames == DOMAIN Commands

\* A command name nothing is registered under, and the key a Collection uses
\* for a name that is undefined.
Unknown == "nope"
Undefined == "undefined"

\* What a user can type as a command name, and the keys of the Collections.
Spellings == CmdNames \cup UNION {Commands[n].aliases : n \in CmdNames} \cup {Unknown}
RegistryKeys == Spellings \cup {Undefined}

NoCommand == [execute |-> FALSE]
NoName == ""

\* this.commands.get(name) || this.commands.get(this.aliases.get(name))
GetCommandIn(cmds, als, name) ==
    IF cmds[name] # NoCommand THEN cmds[name]
    ELSE cmds[IF als[name] # NoName THEN als[name] ELSE Undefined]

GetCommand(name) == GetCommandIn(commands, aliases, name)

\* this.commandStats has an entry for the names loadCommands registered.
HasStats(key) == key \in CmdNames

\* The rate-limit types: the dispatcher passes the command name as the type;
\* "burst" and "steady" are types a caller uses with a custom limit.
CustomLimits ==
    [burst |-> [max |-> 1, window |-> 1000],
     steady |-> [max |-> 2, window |-> 1500]]

\* The limit the calls of the model use for a type.
TypeLimit(type) ==
    IF type \in DOMAIN CustomLimits THEN CustomLimits[type] ELSE LimitFor(type, NoLimit)

RateTypes == Spellings \cup DOMAIN CustomLimits

CacheKeys == {RateKey(t) : t \in RateTypes}
                \cup {ViolationsKey, TempBanKey, SpamFreqKey, SpamViolationsKey,
                      SpamContentKey}

\* A cooldown the Collection has no entry for.
Unset == 1

IsOwner == Sender \in ownerNumbers

(***************************************************************************)
(* checkPermissions(command, user, group, isGroupAdmin, isBotAdmin).  s is *)
(* the subject: premium (user.isPremium), group (the group record is       *)
(* there), groupAdmin, botAdmin.                                           *)
(***************************************************************************)
Grants(permission, s) ==
    CASE permission = "owner" -> IsOwner
      [] permission = "admin" -> IsOwner \/ s.groupAdmin
      [] permission = "premium" -> s.premium \/ IsOwner
      [] permission = "group" -> s.group
      [] permission = "private" -> ~s.group
      [] permission = "botAdmin" -> s.botAdmin
      [] OTHER -> FALSE

\* Every declared tag has to be satisfied.
RECURSIVE CheckPermissionsAll(_, _)
CheckPermissionsAll(permissions, s) ==
    IF permissions = <<>> THEN TRUE
    ELSE Grants(Head(permissions), s) /\ CheckPermissionsAll(Tail(permissions), s)

RECURSIVE PermissionLoop(_, _)
PermissionLoop(permissions, s) ==
    IF permissions = <<>> THEN FALSE
    ELSE IF Grants(Head(permissions), s) THEN TRUE
    ELSE PermissionLoop(Tail(permissions), s)

CheckPermissions(permissions, s) ==
    IF Len(permissions) = 0 THEN TRUE ELSE PermissionLoop(permissions, s)

(***************************************************************************)
(* checkCooldown(commandName, userId)                                      *)
(***************************************************************************)
\* timePassed <= cooldownTime
CooldownActiveInclusive(timePassed, cooldownTime) == timePassed <= cooldownTime

\* timePassed < cooldownTime
CooldownActive(timePassed, cooldownTime) == timePassed < cooldownTime

CheckCooldown(cds, name) ==
    LET command == GetCommand(name)
        lastUsed == cds[name]
        timePassed == 0 - lastUsed
        cooldownTime == command.cooldown * 1000
    IN  IF command.cooldown = 0
        THEN [ok |-> TRUE, timeLeft |-> 0, cooldowns |-> cds]
        ELSE IF lastUsed = Unset
        THEN [ok |-> TRUE, timeLeft |-> 0, cooldowns |-> [cds EXCEPT ![name] = 0]]
        ELSE IF CooldownActive(timePassed, cooldownTime)
        THEN [ok |-> FALSE, timeLeft |-> CeilDiv(cooldownTime - timePassed, 1000),
              cooldowns |-> cds]
        ELSE [ok |-> TRUE, timeLeft |-> 0, cooldowns |-> [cds EXCEPT ![name] = 0]]

\* validateArguments(command, args, sock, message): nargs is args.length
ValidateArguments(command, nargs) ==
    IF command.args = FALSE THEN TRUE
    ELSE IF command.minArgs # 0 /\ nargs < command.minArgs THEN FALSE
    ELSE IF command.maxArgs # 0 /\ nargs > command.maxArgs THEN FALSE
    ELSE TRUE

(***************************************************************************)
(* handleCommand: the gates in the order the code runs them.  A gate       *)
(* answers whether it passed, the state it leaves and the chat messages it *)
(* sent.  rq is the request: isGroup, groupFound (getGroup found the       *)
(* record), groupAdmin, botAdmin, premium, userBanned, groupBanned, nargs. *)
(* CHOOSE res \in {e(r) : r \in {call}} : TRUE is e(call), with the call     *)
(* evaluated once.                                                         *)
(***************************************************************************)
GateOrderCooldownFirst ==
    <<"cooldown", "ban", "permission", "ownerCategory", "rateLimit", "antiSpam", "args">>

GateOrder ==
    <<"ban", "permission", "ownerCategory", "cooldown", "rateLimit", "antiSpam", "args">>

Subject(rq) ==
    [premium |-> rq.premium, group |-> rq.isGroup /\ rq.groupFound,
     groupAdmin |-> rq.isGroup /\ rq.groupAdmin,
     botAdmin |-> rq.isGroup /\ rq.botAdmin]

\* isGroup && command.category === 'owner' && !config.ownerNumbers.includes(sender)
OwnerCategoryRejects(name, rq) ==
    rq.isGroup /\ GetCommand(name).category = "owner" /\ ~IsOwner

Gate(g, st, name, rq) ==
    CASE g = "ban" ->
            LET banned == rq.userBanned \/ (rq.isGroup /\ rq.groupFound /\ rq.groupBanned)
            IN  [ok |-> ~banned, st |-> st, sent |-> IF banned THEN 1 ELSE 0]
      [] g = "permission" ->
            LET ok == CheckPermissions(GetCommand(name).permissions, Subject(rq))
            IN  [ok |-> ok, st |-> st, sent |-> IF ok THEN 0 ELSE 1]
      [] g = "ownerCategory" ->
            LET rejects == OwnerCategoryRejects(name, rq)
            IN  [ok |-> ~rejects, st |-> st, sent |-> IF rejects THEN 1 ELSE 0]
      [] g = "cooldown" ->
            LET r == CheckCooldown(st.cooldowns, name)
            IN  [ok |-> r.ok, st |-> [st EXCEPT !.cooldowns = r.cooldowns],
                 sent |-> IF r.ok THEN 0 ELSE 1]
      [] g = "rateLimit" ->
            CHOOSE res \in
                {[ok |-> r.allowed, st |-> r.st, sent |-> IF r.allowed THEN 0 ELSE 1] :
                    r \in {CheckLimit(st, name, NoLimit)}} : TRUE
      [] g = "antiSpam" ->
            CHOOSE res \in
                {[ok |-> ~r.isSpam,
                  st |-> [st EXCEPT !.cache = r.cache,
                                    !.checked = IF r.evaluated THEN Append(@, 0) ELSE @],
                  sent |-> IF r.isSpam THEN 1 ELSE 0] :
                    r \in {CheckSpam(st.cache)}} : TRUE
      [] g = "args" ->
            LET ok == ValidateArguments(GetCommand(name), rq.nargs)
            IN  [ok |-> ok, st |-> st, sent |-> IF ok THEN 0 ELSE 1]

RECURSIVE RunGates(_, _, _, _, _)
RunGates(gates, st, name, rq, trace) ==
    IF gates = <<>> THEN [st |-> st, trace |-> trace, failed |-> "none", sent |-> 0]
    ELSE CHOOSE res \in
            {IF r.ok THEN RunGates(Tail(gates), r.st, name, rq, Append(trace, Head(gates)))
             ELSE [st |-> r.st, trace |-> Append(trace, Head(gates)),
                   failed |-> Head(gates), sent |-> r.sent] :
                r \in {Gate(Head(gates), st, name, rq)}} : TRUE

\* The concurrent callers of checkLimit, and a caller that has no call in progress.
Callers == {1, 2}
Idle == [pc |-> "idle"]

DState ==
    [cooldowns |-> cooldowns, cache |-> cacheStore, log |-> allowedLog,
     checked |-> checkedLog]

\* The recorded violations are followed up to n of them.
WithinViolations(c, n) == Len(CacheGet(c, ViolationsKey, <<>>)) <= n

InitD(owners) ==
    /\ ownerNumbers = owners
    /\ whitelistedUsers = {}
    /\ cooldowns = [n \in Spellings |-> Unset]
    /\ commands = [k \in RegistryKeys |-> IF k \in CmdNames THEN Commands[k] ELSE NoCommand]
    /\ aliases = [k \in RegistryKeys |->
                    IF \E n \in CmdNames : k \in Commands[n].aliases
                    THEN CHOOSE n \in CmdNames : k \in Commands[n].aliases
                    ELSE NoName]
    /\ isInitialized = TRUE
    /\ calls = [p \in Callers |-> Idle]
    /\ inboundLog = <<>>
    /\ cacheStore = [k \in CacheKeys |-> Missing]
    /\ allowedLog = [t \in RateTypes |-> <<>>]
    /\ checkedLog = <<>>
    /\ last = [op |-> "none"]

\* The state after construction, the sender being no owner number, or an owner
\* number or not.
InitNoOwner == InitQ /\ InitD({})

InitAnyOwner == InitQ /\ \E owners \in SUBSET {Sender} : InitD(owners)

(***************************************************************************)
(* handleCommand as a whole: the try block, the catch block and the        *)
(* finally block.  env says what the collaborators do during the call:     *)
(* fault names the collaborator calls that reject (FaultCalls), userFound  *)
(* whether getUser finds the sender.  The calls made on the socket are     *)
(* recorded in the order they are made: "message" for sendMessage,         *)
(* "composing" and "paused" for sendPresenceUpdate.  used and errors are   *)
(* what the call adds to the command's counters in this.commandStats.      *)
(***************************************************************************)
FaultCalls ==
    [none |-> {}, storage |-> {"storage"}, metadata |-> {"metadata"},
     send |-> {"send"}, presence |-> {"presence"}, execute |-> {"execute"},
     log |-> {"log"}, socket |-> {"send", "presence", "metadata"}]

Faults == DOMAIN FaultCalls

Rejects(env, call) == call \in FaultCalls[env.fault]

NoFault == [fault |-> "none", userFound |-> TRUE]

\* The try block, entered in the state st.  thrown: an exception left it;
\* result: the value it returned; spelled: the commandName it was called with.
TryBlockIn(st, name, rq, env) ==
    LET quiet == [st |-> st, trace |-> <<>>, failed |-> "none", signals |-> <<>>,
                  invoked |-> FALSE, used |-> 0, thrown |-> FALSE, result |-> FALSE,
                  spelled |-> name]
        banned == rq.userBanned \/ (rq.isGroup /\ rq.groupFound /\ rq.groupBanned)
    IN  IF GetCommand(name) = NoCommand THEN quiet
        ELSE IF Rejects(env, "storage") THEN [quiet EXCEPT !.thrown = TRUE]
        ELSE IF ~env.userFound THEN quiet
        ELSE IF ~banned /\ rq.isGroup /\ Rejects(env, "metadata")
        THEN [quiet EXCEPT !.thrown = TRUE, !.trace = <<"ban">>]
        ELSE CHOOSE res \in
          {IF r.failed # "none"
           THEN [st |-> r.st, trace |-> r.trace, failed |-> r.failed,
                 signals |-> [i \in 1..r.sent |-> "message"], invoked |-> FALSE,
                 used |-> 0,
                 thrown |-> r.sent > 0 /\ Rejects(env, "send"), result |-> TRUE,
                 spelled |-> name]
           ELSE LET typing == IF GetCommand(name).typing THEN <<"composing">> ELSE <<>>
                    stopped == typing # <<>> /\ Rejects(env, "presence")
                IN  [st |-> r.st, trace |-> r.trace, failed |-> "none",
                     signals |-> typing, invoked |-> ~stopped,
                     used |-> IF stopped \/ Rejects(env, "execute") THEN 0 ELSE 1,
                     thrown |-> stopped \/ Rejects(env, "execute") \/ Rejects(env, "log"),
                     result |-> TRUE, spelled |-> name] :
             r \in {RunGates(GateOrder, st, name, rq, <<>>)}} : TRUE

TryBlock(name, rq, env) == TryBlockIn(DState, name, rq, env)

\* The catch block: the error counter of this.commandStats.get(commandName), if
\* there is such an entry, goes up by one (errors), the error message is sent to
\* the chat and true is returned.
CatchBlock(t, env) ==
    IF ~t.thrown
    THEN [signals |-> t.signals, thrown |-> FALSE, result |-> t.result, errors |-> 0]
    ELSE [signals |-> Append(t.signals, "message"), thrown |-> Rejects(env, "send"),
          result |-> TRUE, errors |-> IF HasStats(t.spelled) THEN 1 ELSE 0]

\* The finally block left out.
FinallyBlockSkipped(c, env) == c

\* The finally block: sendPresenceUpdate('paused', remoteJid).
FinallyBlock(c, env) ==
    [signals |-> Append(c.signals, "paused"),
     thrown |-> c.thrown \/ Rejects(env, "presence"), result |-> c.result,
     errors |-> c.errors]

\* What the caller sees: the returned value, or the promise rejected.
Outcome(f) == IF f.thrown THEN "rejected" ELSE IF f.result THEN "true" ELSE "false"

Count(s, x) == Cardinality({i \in 1..Len(s) : s[i] = x})

HandleCommandIn(name, rq, env) ==
    \E t \in {TryBlock(name, rq, env)} :
    \E f \in {FinallyBlock(CatchBlock(t, env), env)} :
        /\ WithinViolations(t.st.cache, MaxViolations)
        /\ cooldowns' = t.st.cooldowns
        /\ cacheStore' = t.st.cache
        /\ allowedLog' = t.st.log
        /\ checkedLog' = t.st.checked
        /\ last' = [op |-> "handleCommand", cmd |-> name,
                    command |-> GetCommand(name), isGroup |-> rq.isGroup,
                    groupAdmin |-> rq.isGroup /\ rq.groupAdmin,
                    banned |-> rq.userBanned \/ (rq.isGroup /\ rq.groupFound /\ rq.groupBanned),
                    trace |-> t.trace, failed |-> t.failed,
                    sent |-> Count(f.signals, "message"),
                    invoked |-> t.invoked, signals |-> f.signals,
                    used |-> t.used, errors |-> f.errors,
                    caught |-> t.thrown, outcome |-> Outcome(f), fault |-> env.fault]
        /\ UNCHANGED <<ownerNumbers, whitelistedUsers, qvars, bvars, pvars>>

\* handleCommand(sock, message, commandName, args) for a registered command and
\* a sender getUser finds, every collaborator call succeeding.  The command's
\* execute is invoked when no gate failed.
HandleCommand(name, rq) == HandleCommandIn(name, rq, NoFault)

\* handleIncomingMessage(sock, message) of the message router, for a message
\* with content that the bot did not send: checkSpam(sender, message) without
\* a context (the action it answers is a promise, so it never equals 'block'
\* and the router goes on), the user and group bookkeeping, and for a message
\* that names a command processCommand, which calls handleCommand.  isCommand
\* says whether the text names a registered command, name which one.
HandleIncomingMessage(isCommand, name, rq) ==
    \E s \in {CheckSpam(cacheStore)} :
    \E st \in {[DState EXCEPT !.cache = s.cache,
                             !.checked = IF s.evaluated THEN Append(@, 0) ELSE @]} :
    \E blocked \in {s.isSpam /\ ~s.action.promise /\ s.action.value = "block"} :
    \E t \in {TryBlockIn(st, IF isCommand /\ ~blocked THEN name ELSE Unknown, rq, NoFault)} :
        /\ WithinViolations(t.st.cache, MaxViolations)
        /\ cooldowns' = t.st.cooldowns
        /\ cacheStore' = t.st.cache
        /\ allowedLog' = t.st.log
        /\ checkedLog' = t.st.checked
        /\ inboundLog' = Append(inboundLog, 0)
        /\ last' = [op |-> "handleIncomingMessage", isCommand |-> isCommand,
                    cmd |-> t.spelled, flagged |-> s.isSpam, indicators |-> s.indicators,
                    trace |-> t.trace, failed |-> t.failed, invoked |-> t.invoked]
        /\ UNCHANGED <<ownerNumbers, whitelistedUsers, qvars, bvars>>
        /\ UNCHANGED <<commands, aliases, isInitialized, calls>>

\* A direct call of checkPermissions.
CheckPermissionsCall(permissions, s) ==
    /\ last' = [op |-> "checkPermissions", permissions |-> permissions, subject |-> s,
                result |-> CheckPermissions(permissions, s)]
    /\ UNCHANGED <<ownerNumbers, whitelistedUsers, cooldowns, cacheStore, allowedLog, checkedLog, qvars, bvars, pvars>>

\* A direct call of checkCooldown.
CheckCooldownCall(name) ==
    LET r == CheckCooldown(cooldowns, name)
    IN  /\ cooldowns' = r.cooldowns
        /\ last' = [op |-> "checkCooldown", cmd |-> name, ok |-> r.ok,
                    timeLeft |-> r.timeLeft]
        /\ UNCHANGED <<ownerNumbers, whitelistedUsers, cacheStore, allowedLog, checkedLog, qvars, bvars, pvars>>

\* A direct call of checkLimit with the custom limit of the type, the store
\* failing as fault says; the call is followed up to n recorded violations.
CheckLimitCallIn(type, fault, n) ==
    LET r == CheckLimitIn(DState, type, CustomLimits[type], fault)
    IN  /\ WithinViolations(r.st.cache, n)
        /\ cacheStore' = r.st.cache
        /\ allowedLog' = r.st.log
        /\ last' = [op |-> "checkLimit", type |-> type, allowed |-> r.allowed,
                    remaining |-> r.remaining, resetTime |-> r.resetTime,
                    fault |-> fault]
        /\ UNCHANGED <<ownerNumbers, whitelistedUsers, cooldowns, checkedLog, qvars, bvars, pvars>>

CheckLimitCall(type) == CheckLimitCallIn(type, "none", MaxViolations)

\* A checkLimit call of caller p runs up to its first suspension point, the
\* await of cache.get: the stored list has been read.
CheckLimitBegin(p, type) ==
    /\ calls[p] = Idle
    /\ calls' = [calls EXCEPT ![p] =
                    [pc |-> "read", type |-> type,
                     requests |-> CheckLimitRead(cacheStore, type, "none")]]
    /\ last' = [op |-> "checkLimitBegin", caller |-> p, type |-> type]
    /\ UNCHANGED <<dvars_but_last, qvars, bvars>>
    /\ UNCHANGED <<commands, aliases, isInitialized, inboundLog>>

\* The call of caller p resumes after the await and runs to its end.  read is
\* the list it works from, stored the list the cache holds when it resumes.
CheckLimitEnd(p) ==
    /\ calls[p] # Idle
    /\ \E r \in {CheckLimitWrite(DState, calls[p].type, CustomLimits[calls[p].type],
                                  "none", calls[p].requests)} :
          /\ WithinViolations(r.st.cache, MaxViolations)
          /\ cacheStore' = r.st.cache
          /\ allowedLog' = r.st.log
          /\ last' = [op |-> "checkLimit", type |-> calls[p].type, allowed |-> r.allowed,
                      remaining |-> r.remaining, resetTime |-> r.resetTime,
                      fault |-> "none", caller |-> p, read |-> calls[p].requests,
                      stored |-> CheckLimitRead(cacheStore, calls[p].type, "none")]
    /\ calls' = [calls EXCEPT ![p] = Idle]
    /\ UNCHANGED <<ownerNumbers, whitelistedUsers, cooldowns, checkedLog, qvars, bvars>>
    /\ UNCHANGED <<commands, aliases, isInitialized, inboundLog>>

\* A direct call of isTemporaryBanned.
IsTemporaryBannedCall ==
    LET r == IsTemporaryBanned(cacheStore)
    IN  /\ cacheStore' = r.cache
        /\ last' = [op |-> "isTemporaryBanned", banned |-> r.banned,
                    remainingTime |-> r.remainingTime,
                    record |-> CacheGet(cacheStore, TempBanKey, Missing)]
        /\ UNCHANGED <<ownerNumbers, whitelistedUsers, cooldowns, allowedLog, checkedLog, qvars, bvars, pvars>>

\* A direct call of checkSpam.
CheckSpamCallIn(context, env) ==
    LET r == CheckSpamIn(cacheStore, context, env)
    IN  /\ cacheStore' = r.cache
        /\ checkedLog' = IF r.evaluated THEN Append(checkedLog, 0) ELSE checkedLog
        /\ last' = [op |-> "checkSpam", isSpam |-> r.isSpam, severity |-> r.severity,
                    found |-> context.text, indicators |-> r.indicators,
                    action |-> r.action, waitTime |-> r.waitTime,
                    reason |-> r.reason, evaluated |-> r.evaluated,
                    context |-> context, env |-> env]
        /\ UNCHANGED <<ownerNumbers, whitelistedUsers, cooldowns, allowedLog, qvars, bvars, pvars>>

\* A direct call of checkSpam with a context whose text the heuristics report on.
CheckSpamCall(text) == CheckSpamCallIn([NoContext EXCEPT !.text = text], Healthy)

\* addToWhitelist(userId)
AddToWhitelist ==
    /\ whitelistedUsers' = whitelistedUsers \cup {Sender}
    /\ last' = [op |-> "addToWhitelist"]
    /\ UNCHANGED <<ownerNumbers, cooldowns, cacheStore, allowedLog, checkedLog, qvars, bvars, pvars>>

\* removeFromWhitelist(userId)
RemoveFromWhitelist ==
    /\ whitelistedUsers' = whitelistedUsers \ {Sender}
    /\ last' = [op |-> "removeFromWhitelist"]
    /\ UNCHANGED <<ownerNumbers, cooldowns, cacheStore, allowedLog, checkedLog, qvars, bvars, pvars>>

\* A direct call of calculateSeverity.
CalculateSeverityCall(indicators) ==
    /\ last' = [op |-> "calculateSeverity", found |-> indicators,
                severity |-> CalculateSeverity(indicators)]
    /\ UNCHANGED <<ownerNumbers, whitelistedUsers, cooldowns, cacheStore, allowedLog, checkedLog, qvars, bvars, pvars>>

(***************************************************************************)
(* d ms pass.  Time is followed until a stored cooldown or cache entry is  *)
(* h ms old.                                                               *)
(***************************************************************************)
ShiftVal(key, val, d) ==
    IF key = TempBanKey THEN [val EXCEPT !.bannedAt = @ - d]
    ELSE IF key \in {ViolationsKey, SpamViolationsKey, SpamContentKey}
    THEN [i \in 1..Len(val) |-> [val[i] EXCEPT !.timestamp = @ - d]]
    ELSE [i \in 1..Len(val) |-> val[i] - d]

ShiftEntry(key, e, d) ==
    IF e = Missing THEN Missing
    ELSE IF 0 - (e.setAt - d) > e.ttl THEN Missing
    ELSE [val |-> ShiftVal(key, e.val, d), setAt |-> e.setAt - d, ttl |-> e.ttl]

Tick(d, h) ==
    /\ \A n \in Spellings : cooldowns[n] # Unset => cooldowns[n] - d >= 0 - h
    /\ \A k \in CacheKeys : cacheStore[k] # Missing => cacheStore[k].setAt - d >= 0 - h
    /\ cooldowns' = [n \in Spellings |->
                       IF cooldowns[n] = Unset THEN Unset ELSE cooldowns[n] - d]
    /\ cacheStore' = [k \in CacheKeys |-> ShiftEntry(k, cacheStore[k], d)]
    /\ allowedLog' = [t \in RateTypes |->
                        SelectSeq([i \in 1..Len(allowedLog[t]) |-> allowedLog[t][i] - d],
                                  LAMBDA ts : 0 - ts < TypeLimit(t).window)]
    /\ checkedLog' = SelectSeq([i \in 1..Len(checkedLog) |-> checkedLog[i] - d],
                               LAMBDA ts : 0 - ts < SpamTimeWindow)
    /\ inboundLog' = SelectSeq([i \in 1..Len(inboundLog) |-> inboundLog[i] - d],
                               LAMBDA ts : 0 - ts < SpamTimeWindow)
    /\ last' = [op |-> "tick"]
    /\ UNCHANGED <<ownerNumbers, whitelistedUsers, qvars, bvars>>
    /\ UNCHANGED <<commands, aliases, isInitialized, calls>>

(***************************************************************************)
(* The retry specification: messages with generated (unique) ids, every    *)
(* retry bound a caller may pass, an execute hook that fails or succeeds,  *)
(* cancellation, the deferred drains and the health check.                 *)
(***************************************************************************)
MaxMsgsRetry == 1
RetryBounds == 0..MaxRetriesDefault

NextRetry ==
    \/ \E dl \in {0, 1}, mr \in RetryBounds :
          /\ NextObj <= MaxMsgsRetry
          /\ AddMessage(NextObj, 1, dl, mr)
    \/ \E o \in Objs, ok \in BOOLEAN : Callback(o, ok)
    \/ RunImmediate
    \/ RunTimer
    \/ HealthCheck
    \/ \E id \in Objs : RemoveMessage(id)
    \/ ClearQueue
    \/ TickQ

SpecRetry == InitNoOwner /\ [][NextRetry]_vars

\* C1 (as amended): a message is dispatched at most max(maxRetries, 1) times; it
\* gets at most one message:failed event, and that event comes only when the
\* message has been dispatched exactly max(maxRetries, 1) times, no dispatch of
\* it is outstanding and it has left the queue.
C1_RetryBound ==
    \A o \in Allocated :
        LET i == msgs[o].id
            bound == IF msgs[o].maxRetries > 1 THEN msgs[o].maxRetries ELSE 1
        IN  /\ events[i].processing <= bound
            /\ events[i].failed <= 1
            /\ events[i].failed = 1 =>
                  /\ events[i].processing = bound
                  /\ events[i].completed = 0
                  /\ inflight[o] = 0
                  /\ o \notin Range(queue)

C1_Witness ==
    \E o \in Allocated :
        /\ msgs[o].maxRetries = 3
        /\ events[msgs[o].id].processing = 3
        /\ events[msgs[o].id].failed = 1

\* C1 as stated: the message:failed event comes after exactly maxRetries
\* dispatches, for every maxRetries including 0.
C1_AsStated ==
    \A o \in Allocated :
        events[msgs[o].id].failed >= 1 =>
            events[msgs[o].id].processing = msgs[o].maxRetries

(***************************************************************************)
(* The backoff specification: one hook that fails or succeeds, retry       *)
(* bounds that let a message be rescheduled up to three times.             *)
(***************************************************************************)
MaxMsgsBackoff == 1

NextBackoff ==
    \/ \E dl \in {0, 1, 2}, mr \in {2, 4} :
          /\ NextObj <= MaxMsgsBackoff
          /\ AddMessage(NextObj, 1, dl, mr)
    \/ \E o \in Objs, ok \in BOOLEAN : Callback(o, ok)
    \/ RunImmediate
    \/ RunTimer
    \/ HealthCheck
    \/ TickQ

SpecBackoff == InitNoOwner /\ [][NextBackoff]_vars

\* C5: when the n-th attempt of a queued message fails and attempts < maxRetries,
\* its scheduledFor becomes (time of the failure) + delay * 2^(n-1); the wait it is
\* given is never smaller than the wait it was given before; and a message is
\* dispatched only at or after its scheduledFor.
C5_Step ==
    \A o \in Objs :
        (msgs[o] # NoMsg /\ o \in Range(queue)) =>
            LET i == msgs[o].id IN
            /\ events'[i].retry = events[i].retry + 1 =>
                  /\ msgs[o].attempts < msgs[o].maxRetries
                  /\ msgs[o].attempts = events[i].retry + 1
                  /\ msgs'[o].scheduledFor = msgs[o].delay * (2 ^ events[i].retry)
                  /\ lastWait'[o] = msgs'[o].scheduledFor
                  /\ lastWait'[o] >= lastWait[o]
            /\ events'[i].processing > events[i].processing =>
                  msgs[o].scheduledFor <= 0

C5_Backoff == [][C5_Step]_vars

C5_Witness ==
    \E o \in Allocated :
        /\ msgs[o].delay = 2
        /\ events[msgs[o].id].retry = 3
        /\ msgs[o].scheduledFor = 8
        /\ o \in Range(queue)

(***************************************************************************)
(* The concurrency specification: addMessage with generated ids and        *)
(* messages that are ready when they are enqueued (delay 0), persistQueue, *)
(* restoreQueue and the health check, interleaved with the execute hook's  *)
(* callbacks.                                                              *)
(***************************************************************************)
MaxMsgsConc == 6

NextConc ==
    \/ /\ NextObj <= MaxMsgsConc
       /\ AddMessage(NextObj, 1, 0, 1)
    \/ \E o \in Objs, ok \in BOOLEAN : Callback(o, ok)
    \/ RunImmediate
    \/ HealthCheck
    \/ PersistQueue
    \/ RestoreQueue

SpecConc == InitNoOwner /\ [][NextConc]_vars

\* C2: at most maxConcurrent messages of the queue have been handed to the
\* execute hook and have not yet called back.
C2_BoundedConcurrency ==
    Cardinality({o \in Allocated : inflight[o] > 0}) <= MaxConcurrent

(***************************************************************************)
(* The liveness specification: messages with generated ids, cancellation,  *)
(* a hook that succeeds or fails.  Fairness: time passes, the event loop   *)
(* runs the deferred drains, the health-check interval keeps firing, and   *)
(* the execute hook calls back for every dispatch.  Nothing obliges a      *)
(* caller to enqueue or to cancel.                                         *)
(***************************************************************************)
MaxMsgsLive == 2

NextLive ==
    \/ \E dl \in {0, 1}, mr \in {1, 2} :
          /\ NextObj <= MaxMsgsLive
          /\ AddMessage(NextObj, 1, dl, mr)
    \/ \E o \in Objs, ok \in BOOLEAN : Callback(o, ok)
    \/ RunImmediate
    \/ RunTimer
    \/ HealthCheck
    \/ \E id \in Objs : RemoveMessage(id)
    \/ ClearQueue
    \/ TickQ

SpecLive ==
    /\ InitNoOwner
    /\ [][NextLive]_vars
    /\ WF_vars(TickQ)
    /\ WF_vars(RunImmediate)
    /\ WF_vars(RunTimer)
    /\ WF_vars(HealthCheck)
    /\ \A o \in Objs : WF_vars(\E ok \in BOOLEAN : Callback(o, ok))

Terminal(o) == events[msgs[o].id].completed + events[msgs[o].id].failed

\* C3: a message that was accepted and is not cancelled has no terminal event
\* while it is in the queue and exactly one (message:completed or message:failed)
\* once it has left it; and every message in the queue, whether it is ready or
\* scheduled for later, eventually leaves the queue.
C3_ExactlyOneTerminal ==
    \A o \in Allocated :
        msgs[o].id \notin removed =>
            Terminal(o) = (IF o \in Range(queue) THEN 0 ELSE 1)

C3_NeverDropped ==
    /\ []C3_ExactlyOneTerminal
    /\ \A o \in Objs : (o \in Range(queue)) ~> (o \notin Range(queue))

\* A message enqueued alone with a delay, never retried (so no timer was ever
\* set and no completion ever scheduled a drain), has completed.
C3_Witness ==
    /\ Allocated = {1}
    /\ msgs[1].delay = 1
    /\ events[1].retry = 0
    /\ events[1].completed = 1
    /\ removed = {}
    /\ queue = <<>>

(***************************************************************************)
(* The ordering specification: messages of two priorities, ready when      *)
(* enqueued or scheduled for later, enqueued in any order and at any time; *)
(* a hook that succeeds or fails.                                          *)
(***************************************************************************)
MaxMsgsOrder == 2
Priorities == {1, 5}

NextOrder ==
    \/ \E pr \in Priorities, dl \in {0, 1} :
          /\ NextObj <= MaxMsgsOrder
          /\ AddMessage(NextObj, pr, dl, 2)
    \/ \E o \in Objs, ok \in BOOLEAN : Callback(o, ok)
    \/ RunImmediate
    \/ RunTimer
    \/ HealthCheck
    \/ TickQ

SpecOrder == InitNoOwner /\ [][NextOrder]_vars

\* The position of object o in sequence s (0 when it is not there).
Pos(s, o) == IF o \in Range(s) THEN CHOOSE i \in 1..Len(s) : s[i] = o ELSE 0

\* C4 (as amended): in any single drain, a ready lower-priority message is
\* dispatched only if every ready higher-priority message that is not in flight
\* is dispatched in that same drain before it; so of two messages A and B with
\* priority(A) > priority(B) that are both in the queue and not yet dispatched
\* when a drain finds B ready, A having a scheduledFor no later than B's, A is
\* handed to the execute hook before B.
C4_DrainStep ==
    /\ \A b \in Range(lastDrain'.sent) : \A a \in lastDrain'.cand :
          msgs'[a].priority > msgs'[b].priority =>
              /\ a \in Range(lastDrain'.sent)
              /\ Pos(lastDrain'.sent, a) < Pos(lastDrain'.sent, b)
    /\ \A a \in Range(queue'), b \in Range(queue') :
          ( /\ msgs'[a].priority > msgs'[b].priority
            /\ msgs'[a].scheduledFor <= msgs'[b].scheduledFor
            /\ a \notin Range(order)
            /\ b \notin Range(order)
            /\ b \in Range(order') )
          => (a \in Range(order') /\ Pos(order', a) < Pos(order', b))

C4_Ordering == [][C4_DrainStep]_vars

\* A was enqueued after B, both with the same scheduledFor in the future, and one
\* drain has just dispatched A and then B.
C4_Witness ==
    \E a \in Allocated, b \in Allocated :
        /\ a > b
        /\ msgs[a].priority > msgs[b].priority
        /\ msgs[a].scheduledFor = msgs[b].scheduledFor
        /\ lastWait[a] > 0
        /\ lastWait[b] > 0
        /\ events[msgs[a].id].retry = 0
        /\ events[msgs[b].id].retry = 0
        /\ Pos(lastDrain.sent, a) > 0
        /\ Pos(lastDrain.sent, a) < Pos(lastDrain.sent, b)

\* C4 as stated: of two messages A and B that have their scheduledFor of the time
\* they were enqueued, equal, with priority(A) > priority(B), B is never dispatched
\* before A, whichever was enqueued first.
C4_AsStated ==
    \A a \in Range(queue), b \in Range(queue) :
        ( /\ msgs[a].priority > msgs[b].priority
          /\ msgs[a].scheduledFor = msgs[b].scheduledFor
          /\ events[msgs[a].id].retry = 0
          /\ events[msgs[b].id].retry = 0
          /\ b \in Range(order) )
        => (a \in Range(order) /\ Pos(order, a) < Pos(order, b))

(***************************************************************************)
(* The rate-limit specification: checkLimit called for the two types with  *)
(* a custom limit, TickMs ms apart or in rapid succession.                 *)
(***************************************************************************)
TickMs == 500
RateHorizon == 3000

NextRateLimit ==
    \/ \E type \in DOMAIN CustomLimits : CheckLimitCall(type)
    \/ Tick(TickMs, RateHorizon)

SpecRateLimit == InitNoOwner /\ [][NextRateLimit]_vars

\* The allowed requests of a type that are inside its window.
InsideWindow(type) ==
    Cardinality({i \in 1..Len(allowedLog[type]) :
                    0 - allowedLog[type][i] < CustomLimits[type].window})

\* C6: a checkLimit call is refused when max allowed requests of the subject and
\* type lie inside the window, all of them less than window ms old; and it is
\* allowed when fewer do, in particular the first call made once window ms have
\* passed since the oldest of max allowed requests.
C6_Step ==
    last'.op = "checkLimit" =>
        last'.allowed = (InsideWindow(last'.type) < CustomLimits[last'.type].max)

C6_SlidingWindow == [][C6_Step]_vars

\* Two requests were allowed at once, a third was refused, and the call made
\* exactly one window later is allowed.
C6_Witness ==
    /\ last.op = "checkLimit"
    /\ last.type = "steady"
    /\ last.allowed
    /\ cacheStore[RateKey("steady")] # Missing
    /\ cacheStore[RateKey("steady")].val = <<0>>
    /\ cacheStore[ViolationsKey] # Missing
    /\ \E i \in 1..Len(cacheStore[ViolationsKey].val) :
          /\ cacheStore[ViolationsKey].val[i].type = "steady"
          /\ cacheStore[ViolationsKey].val[i].timestamp = 0 - CustomLimits.steady.window

(***************************************************************************)
(* The permission specification: checkPermissions applied to every list of *)
(* at most two tags, one of them a tag the code does not know, for every   *)
(* subject, with the sender an owner number or not.                        *)
(***************************************************************************)
Tags == {"owner", "admin", "premium", "group", "private", "botAdmin", "moderator"}
PermissionLists == {<<>>} \cup {<<a>> : a \in Tags} \cup {<<a, b>> : a \in Tags, b \in Tags}
Subjects == [premium : BOOLEAN, group : BOOLEAN, groupAdmin : BOOLEAN, botAdmin : BOOLEAN]

NextPerm ==
    \E permissions \in PermissionLists, s \in Subjects : CheckPermissionsCall(permissions, s)

SpecPerm ==
    /\ InitAnyOwner
    /\ [][NextPerm]_vars

\* What it is for a subject to satisfy a tag.
Satisfies(tag, s) ==
    \/ tag = "owner" /\ Sender \in ownerNumbers
    \/ tag = "admin" /\ (Sender \in ownerNumbers \/ s.groupAdmin)
    \/ tag = "premium" /\ (s.premium \/ Sender \in ownerNumbers)
    \/ tag = "group" /\ s.group
    \/ tag = "private" /\ ~s.group
    \/ tag = "botAdmin" /\ s.botAdmin

\* C8: checkPermissions returns true for a command without declared tags, and
\* for a command with declared tags exactly when the subject satisfies at least
\* one of them.
C8_PermissionOr ==
    last.op = "checkPermissions" =>
        last.result = ( \/ last.permissions = <<>>
                        \/ \E i \in 1..Len(last.permissions) :
                              Satisfies(last.permissions[i], last.subject) )

\* [owner, admin] is permitted for a subject that is only a group admin.
C8_Witness ==
    /\ last.op = "checkPermissions"
    /\ last.permissions = <<"owner", "admin">>
    /\ Sender \notin ownerNumbers
    /\ last.subject.groupAdmin
    /\ ~last.subject.premium
    /\ last.result

(***************************************************************************)
(* The cooldown specification: checkCooldown called for the registered     *)
(* commands (cooldowns of 3 s, 2 s and none), TickMs ms apart or in rapid  *)
(* succession.                                                             *)
(***************************************************************************)
CooldownHorizon == 4000

NextCooldown ==
    \/ \E name \in CmdNames : CheckCooldownCall(name)
    \/ Tick(TickMs, CooldownHorizon)

SpecCooldown == InitNoOwner /\ [][NextCooldown]_vars

\* C9: for a command with a cooldown of c seconds, a checkCooldown call made less
\* than c seconds after the last one checkCooldown let through is blocked with a
\* timeLeft between 1 and c and leaves the recorded time as it is; a call made c
\* seconds after it or later is let through and records its own time.
C9_Step ==
    last'.op = "checkCooldown" =>
        LET name == last'.cmd
            c == GetCommand(name).cooldown
            lastUsed == cooldowns[name]
        IN  /\ (c > 0 /\ lastUsed # Unset /\ 0 - lastUsed < c * 1000) =>
                  /\ ~last'.ok
                  /\ 1 <= last'.timeLeft
                  /\ last'.timeLeft <= c
                  /\ cooldowns' = cooldowns
            /\ (c > 0 /\ lastUsed # Unset /\ 0 - lastUsed >= c * 1000) =>
                  /\ last'.ok
                  /\ cooldowns'[name] = 0

C9_Cooldown == [][C9_Step]_vars

\* ping (cooldown 3 s) was called 2.5 s after the call that was let through: it is
\* blocked with timeLeft 1, and the recorded time is still the first call's.
C9_Witness ==
    /\ last.op = "checkCooldown"
    /\ last.cmd = "ping"
    /\ ~last.ok
    /\ last.timeLeft = 1
    /\ cooldowns["ping"] = 0 - 2500

(***************************************************************************)
(* The dispatcher specification: handleCommand for the registered commands *)
(* from one sender, an owner number or not, in a private chat or a group,  *)
(* in rapid succession or a long pause apart.                              *)
(***************************************************************************)
LongPause == 3600000

Requests ==
    {rq \in [isGroup : BOOLEAN, groupFound : BOOLEAN, groupAdmin : BOOLEAN,
             botAdmin : {FALSE}, premium : {FALSE}, userBanned : BOOLEAN,
             groupBanned : BOOLEAN, nargs : 0..2] :
        /\ rq.groupFound = rq.isGroup
        /\ (rq.groupAdmin \/ rq.groupBanned) => rq.isGroup}

NextDispatch ==
    \/ \E name \in CmdNames, rq \in Requests : HandleCommand(name, rq)
    \/ Tick(LongPause, LongPause)

SpecDispatch ==
    /\ InitAnyOwner
    /\ [][NextDispatch]_vars

StatedOrder ==
    <<"ban", "permission", "ownerCategory", "cooldown", "rateLimit", "antiSpam", "args">>

RateLimitKeys == {RateKey(t) : t \in RateTypes} \cup {ViolationsKey, TempBanKey}
AntiSpamKeys == {SpamFreqKey, SpamViolationsKey}

\* C7: handleCommand evaluates the gates in the order ban (user, then group),
\* permission, owner category, cooldown, rate limit, anti-spam, arguments, and
\* stops at the first that fails: it then sends exactly one message, does not
\* invoke the command, and leaves the state of every later gate as it was (the
\* cooldowns, the rate-limit entries, the anti-spam entries); the command is
\* invoked only when all seven have passed.
C7_Step ==
    last'.op = "handleCommand" =>
        LET r == last'
            banned == r.banned
        IN  /\ \E k \in 1..Len(StatedOrder) : r.trace = SubSeq(StatedOrder, 1, k)
            /\ r.invoked <=> r.failed = "none"
            /\ r.invoked => (r.trace = StatedOrder /\ r.sent = 0 /\ ~banned)
            /\ banned => r.failed = "ban"
            /\ r.failed # "none" =>
                  /\ r.failed = r.trace[Len(r.trace)]
                  /\ r.sent = 1
                  /\ Len(r.trace) < 4 => cooldowns' = cooldowns
                  /\ Len(r.trace) < 5 =>
                        /\ \A k \in RateLimitKeys : cacheStore'[k] = cacheStore[k]
                        /\ allowedLog' = allowedLog
                  /\ Len(r.trace) < 6 =>
                        \A k \in AntiSpamKeys : cacheStore'[k] = cacheStore[k]

C7_GateSequence == [][C7_Step]_vars

\* The sixth command in rapid succession: every gate up to the rate limit has
\* passed, the anti-spam gate fails, one message is sent, no command is invoked.
C7_Witness ==
    /\ last.op = "handleCommand"
    /\ last.failed = "antiSpam"
    /\ last.trace = SubSeq(StatedOrder, 1, 6)
    /\ last.sent = 1
    /\ ~last.invoked

\* C10: a command of category owner is invoked only for a sender that is an owner
\* number, in a private chat.
C10_OwnerPrivateOnly ==
    (last.op = "handleCommand" /\ last.invoked /\ GetCommand(last.cmd).category = "owner")
        => (Sender \in ownerNumbers /\ ~last.isGroup)

(***************************************************************************)
(* The fault specification: handleCommand for registered and unregistered  *)
(* command names, senders getUser finds or not, and collaborators that     *)
(* reject.                                                                 *)
(***************************************************************************)
FaultRequests ==
    {rq \in Requests :
        /\ ~rq.groupBanned
        /\ rq.groupAdmin = rq.isGroup
        /\ rq.nargs = (IF rq.isGroup THEN 1 ELSE 0)
        /\ rq.userBanned => ~rq.isGroup}

Envs == {env \in [fault : Faults, userFound : BOOLEAN] : ~env.userFound => env.fault = "none"}

MaxBurstFaults == 2   \* calls are followed until this many reached the anti-spam gate in a burst

NextFaults ==
    \/ /\ Len(CacheGet(cacheStore, SpamFreqKey, <<>>)) < MaxBurstFaults
       /\ \E name \in CmdNames \cup {Unknown}, rq \in FaultRequests, env \in Envs :
             HandleCommandIn(name, rq, env)
    \/ Tick(LongPause, LongPause)

SpecFaults ==
    /\ InitAnyOwner
    /\ [][NextFaults]_vars

\* C11: whatever the outcome of handleCommand (unknown command, sender not found,
\* a gate that rejects, the command run, an exception), the last call it makes on
\* the socket is the "paused" presence update, so every "composing" update is
\* followed by a "paused" one.
C11_PresenceRelease ==
    last.op = "handleCommand" =>
        LET sg == last.signals
        IN  /\ sg # <<>>
            /\ sg[Len(sg)] = "paused"
            /\ \A i \in 1..Len(sg) :
                  sg[i] = "composing" => \E j \in (i + 1)..Len(sg) : sg[j] = "paused"

\* The command's execute throws after the "composing" update: the error message
\* is sent and the "paused" update follows.
C11_Witness ==
    /\ last.op = "handleCommand"
    /\ last.fault = "execute"
    /\ last.invoked
    /\ last.signals = <<"composing", "message", "paused">>

\* C12: handleCommand never rejects, whichever collaborator call fails.
C12_NeverRejects ==
    last.op = "handleCommand" => last.outcome # "rejected"

(***************************************************************************)
(* The anti-spam specification: checkSpam calls with and without text the  *)
(* heuristics report on, 5 s passing between calls, followed until the     *)
(* sender has MaxSpamDetections violations on record.                      *)
(***************************************************************************)
MaxSpamDetections == 3
SpamTick == 5000
SpamHorizon == 10000

TextInputs ==
    {NoText,
     <<[reason |-> "suspicious_pattern", severity |-> 15]>>,
     <<[reason |-> "repeated_characters", severity |-> 30],
       [reason |-> "suspicious_pattern", severity |-> 15]>>}

SpamViolations == CacheGet(cacheStore, SpamViolationsKey, <<>>)

NextSpam ==
    \/ /\ \E text \in TextInputs : CheckSpamCall(text)
       /\ Len(CacheGet(cacheStore', SpamViolationsKey, <<>>)) <= MaxSpamDetections
    \/ Tick(SpamTick, SpamHorizon)

SpecSpam ==
    /\ InitNoOwner
    /\ [][NextSpam]_vars

ActionRank(a) == CASE a = "throttle" -> 1 [] a = "warn" -> 2 [] a = "ban" -> 3

\* C13: over the detections on record for the sender (all within the trailing
\* hour), the action determineAction computes at a detection is never lower in
\* the order throttle < warn < ban than the one it computed at the detection
\* before, when the count was one less.
C13_EscalationOrder ==
    \A k \in 2..Len(SpamViolations) :
        ActionRank(ActionFor(SubSeq(SpamViolations, 1, k - 1), SpamViolations[k - 1].severity))
            <= ActionRank(ActionFor(SubSeq(SpamViolations, 1, k), SpamViolations[k].severity))

\* The rule as the claim states it, for count violations of total severity sum
\* and a current severity.
StatedAction(count, sum, severity) ==
    IF count >= 5 \/ sum > 30 * count THEN "ban"
    ELSE IF count >= 3 \/ severity > 20 THEN "warn"
    ELSE "throttle"

\* C14: when checkSpam reports spam, its action is one of the strings throttle,
\* warn, ban, the one the rule gives for the violations on record (the new one
\* included), and waitTime is min(severity x 5 s, 30 s) for throttle.
C14_ActionContract ==
    (last.op = "checkSpam" /\ last.isSpam) =>
        /\ ~last.action.promise
        /\ last.action.value =
              StatedAction(Len(SpamViolations), SumOf(SpamViolations), last.severity)
        /\ last.action.value = "throttle" =>
              last.waitTime = Min(last.severity * 500, 30000)

\* C15: a checkSpam call reports message_frequency exactly when more than 5
\* calls for the sender, this one included, lie within the trailing 10 s; with
\* nothing else reported the call is spam exactly then.
C15_FrequencyFlag ==
    last.op = "checkSpam" =>
        /\ ("message_frequency" \in Range(last.indicators)) <=> (Len(checkedLog) > 5)
        /\ last.found = NoText => (last.isSpam <=> Len(checkedLog) > 5)

\* The sixth call within 10 s: flagged for frequency.
C15_Witness ==
    /\ last.op = "checkSpam"
    /\ Len(checkedLog) = 6
    /\ \E i \in 1..6 : checkedLog[i] < 0
    /\ last.found = NoText
    /\ last.isSpam
    /\ last.indicators = <<"message_frequency">>

(***************************************************************************)
(* The severity specification: calculateSeverity applied to every list of  *)
(* up to MaxIndicators indicators of the pool; severity 0 stands for an    *)
(* indicator without a severity.                                           *)
(***************************************************************************)
MaxIndicators == 3

IndicatorPool ==
    {[reason |-> "plain", severity |-> 0],
     [reason |-> "repeated_content", severity |-> 9],
     [reason |-> "suspicious_pattern", severity |-> 15],
     [reason |-> "excessive_mentions", severity |-> 24],
     [reason |-> "repeated_characters", severity |-> 30]}

IndicatorLists == UNION {[1..n -> IndicatorPool] : n \in 0..MaxIndicators}

NextSeverity == \E indicators \in IndicatorLists : CalculateSeverityCall(indicators)

SpecSeverity ==
    /\ InitNoOwner
    /\ [][NextSeverity]_vars

\* The indicators of t at the positions in keep, in their order.
RECURSIVE Pick(_, _)
Pick(t, keep) ==
    IF t = <<>> THEN <<>>
    ELSE LET rest == Pick(SubSeq(t, 1, Len(t) - 1), keep)
         IN  IF Len(t) \in keep THEN Append(rest, t[Len(t)]) ELSE rest

\* The sum of the severities of t, one (10 tenths) for an indicator without one.
RECURSIVE StatedSum(_, _)
StatedSum(t, n) ==
    IF n = 0 THEN 0
    ELSE StatedSum(t, n - 1) + (IF t[n].severity = 0 THEN 10 ELSE t[n].severity)

\* C16: the combined severity is min(sum of the severities, 5), an indicator
\* without a severity counting 1; so the severity of any part of the indicators
\* is at most that of all of them, which is at most 5.
C16_Severity ==
    last.op = "calculateSeverity" =>
        /\ last.severity = Min(StatedSum(last.found, Len(last.found)), 50)
        /\ last.severity <= 50
        /\ \A keep \in SUBSET (1..Len(last.found)) :
              CalculateSeverity(Pick(last.found, keep)) <= last.severity

\* Three indicators, one of them without a severity, whose sum passes the cap.
C16_Witness ==
    /\ last.op = "calculateSeverity"
    /\ Len(last.found) = 3
    /\ \E i \in 1..3 : last.found[i].severity = 0
    /\ StatedSum(last.found, 3) > 50
    /\ last.severity = 50

(***************************************************************************)
(* The pause specification: pauseQueue and resumeQueue among enqueues,     *)
(* callbacks, deferred drains, health checks and the passing of time.      *)
(***************************************************************************)
MaxMsgsPause == 2

NextPause ==
    \/ \E dl \in {0, 1}, mr \in {1, 2} :
          /\ NextObj <= MaxMsgsPause
          /\ AddMessage(NextObj, 1, dl, mr)
    \/ \E o \in Objs, ok \in BOOLEAN : Callback(o, ok)
    \/ RunImmediate
    \/ RunTimer
    \/ HealthCheck
    \/ TickQ
    \/ PauseQueue
    \/ ResumeQueue

SpecPause ==
    /\ InitNoOwner
    /\ [][NextPause]_vars

\* C17: while the queue is paused (from pauseQueue until resumeQueue), no step
\* hands a message to the execute hook.
C17_PausedNoDispatch == paused => lastDrain.sent = <<>>

\* C18: when the execute hook calls back for a message in flight, the message
\* either gets its terminal event (message:completed or message:failed) or is in
\* the queue for its retry, whether or not removeMessage was called on it while
\* it was in flight.
C18_Step ==
    \A o \in Allocated :
        (inflight[o] > 0 /\ inflight'[o] = inflight[o] - 1) =>
            \/ events'[msgs[o].id].completed + events'[msgs[o].id].failed
                  = events[msgs[o].id].completed + events[msgs[o].id].failed + 1
            \/ o \in Range(queue')

C18_InFlightNotCancelled == [][C18_Step]_vars

(***************************************************************************)
(* The drain specification: drain(q, timeout) and its polls among          *)
(* enqueues, callbacks, deferred drains, persistQueue/restoreQueue and the *)
(* passing of time.                                                        *)
(***************************************************************************)
MaxMsgsDrain == 2
MaxTimeout == 2

NextDrain ==
    \/ \E dl \in {0, 1}, mr \in {1, 2} :
          /\ NextObj <= MaxMsgsDrain
          /\ AddMessage(NextObj, 1, dl, mr)
    \/ \E o \in Objs, ok \in BOOLEAN : Callback(o, ok)
    \/ RunImmediate
    \/ RunTimer
    \/ HealthCheck
    \/ TickQ
    \/ PersistQueue
    \/ RestoreQueue
    \/ \E timeout \in 1..MaxTimeout : Drain(timeout)
    \/ DrainPoll

SpecDrain ==
    /\ InitNoOwner
    /\ [][NextDrain]_vars

\* C19: the promise of drain resolves only when the queue holds no message and
\* no dispatch is outstanding.
C19_DrainResolvesIdle ==
    waiter.status = "resolved" => (waiter.pending = 0 /\ waiter.inflight = 0)

RECURSIVE TotalAllowed(_)
TotalAllowed(names) ==
    IF names = {} THEN 0
    ELSE LET n == CHOOSE x \in names : TRUE
         IN  Len(allowedLog[n]) + TotalAllowed(names \ {n})

\* C20: over all command names together, at most 10 invocations of the sender
\* pass the rate-limit gate within 60 seconds.
C20_CommandsLimit == TotalAllowed(CmdNames) <= 10

(***************************************************************************)
(* The ban specification: checkLimit calls against a limit of one request  *)
(* per second, so that every further call within the second is a           *)
(* violation, isTemporaryBanned calls, and time passing in steps of half   *)
(* an hour.                                                                *)
(***************************************************************************)
MaxBanViolations == 5
BanTick == 1800000
BanHorizon == 5400000

NextBan ==
    \/ CheckLimitCallIn("burst", "none", MaxBanViolations)
    \/ IsTemporaryBannedCall
    \/ Tick(BanTick, BanHorizon)

SpecBan == InitNoOwner /\ [][NextBan]_vars

\* The recorded violations whose timestamp lies within the trailing hour.
ViolationsInHour ==
    LET violations == CacheGet(cacheStore, ViolationsKey, <<>>)
    IN  Cardinality({i \in 1..Len(violations) :
                        0 - violations[i].timestamp < ViolationsTtl * 1000})

\* The ban record was written at this instant.
BanImposedNow ==
    cacheStore[TempBanKey] # Missing /\ cacheStore[TempBanKey].val.bannedAt = 0

\* C21: a checkLimit call that records a violation imposes a temporary ban if
\* and only if at least 5 of the subject's violations have a timestamp within
\* the trailing hour; older violations do not count toward the threshold.
C21_BanIffFiveInHour ==
    (last.op = "checkLimit" /\ ~last.allowed) =>
        (BanImposedNow <=> ViolationsInHour >= ViolationsToBan)

\* C22: isTemporaryBanned reports banned, with a positive remaining time and
\* the record kept, exactly when the record it read is younger than its
\* duration; otherwise it reports false and the record is gone, so that later
\* calls report false until a new ban is written.
C22_BanExpiry ==
    last.op = "isTemporaryBanned" =>
        IF last.record # Missing /\ 0 - last.record.bannedAt < last.record.duration
        THEN /\ last.banned
             /\ last.remainingTime > 0
             /\ cacheStore[TempBanKey] # Missing
        ELSE /\ ~last.banned
             /\ cacheStore[TempBanKey] = Missing

\* A ban record exactly as old as its duration was read: reported as not banned.
C22_Witness ==
    /\ last.op = "isTemporaryBanned"
    /\ last.record # Missing
    /\ 0 - last.record.bannedAt = last.record.duration
    /\ ~last.banned
    /\ cacheStore[TempBanKey] = Missing

(***************************************************************************)
(* The rate limiter with a failing store: every checkLimit call is made    *)
(* with the store's reads, its writes, both or neither failing.  A failed  *)
(* read lets any number of requests through.                               *)
(***************************************************************************)
MaxAllowedFaults == 2   \* calls are followed until this many were allowed in a window

NextLimitFaults ==
    \/ \E fault \in DOMAIN CacheFaults :
            /\ Len(allowedLog["burst"]) < MaxAllowedFaults
            /\ CheckLimitCallIn("burst", fault, MaxViolations)
    \/ Tick(TickMs, RateHorizon)

SpecLimitFaults == InitNoOwner /\ [][NextLimitFaults]_vars

\* C23: a checkLimit call during which a cache read or write failed returns
\* allowed = true (checkLimit never raises: its result is always a record).
C23_FailOpen ==
    (last.op = "checkLimit" /\ last.fault # "none") => last.allowed

(***************************************************************************)
(* The anti-spam check with a failing store: checkSpam is called with or   *)
(* without a text the heuristics flag, the store's reads, its writes, both *)
(* or neither failing; time passes a frequency window at a time.           *)
(***************************************************************************)
MaxFaultDetections == 2
MaxFaultCalls == 7   \* checkSpam calls followed within one frequency window

FaultTexts == {NoText, <<[reason |-> "suspicious_pattern", severity |-> 15]>>}

NextSpamFaults ==
    \/ /\ \E text \in FaultTexts, fault \in DOMAIN CacheFaults :
              CheckSpamCallIn([NoContext EXCEPT !.text = text],
                              [Healthy EXCEPT !.fault = fault])
       /\ Len(CacheGet(cacheStore', SpamViolationsKey, <<>>)) <= MaxFaultDetections
       /\ Len(checkedLog') <= MaxFaultCalls
    \/ Tick(SpamHorizon, SpamHorizon)

SpecSpamFaults == InitNoOwner /\ [][NextSpamFaults]_vars

\* C24: a checkSpam call during which a cache read or write failed returns
\* isSpam = false (checkSpam never raises: its result is always a record).
C24_FailOpen ==
    (last.op = "checkSpam" /\ last.env.fault # "none") => ~last.isSpam

(***************************************************************************)
(* The exemption specification: the whitelist is changed, checkSpam is     *)
(* called directly with a context, and the dispatcher handles kick         *)
(* commands (no cooldown) of a group admin and of a private chat.          *)
(***************************************************************************)
MaxExemptCalls == 6   \* heuristic evaluations followed within one frequency window

ExemptContexts ==
    [isGroup : BOOLEAN, isGroupAdmin : BOOLEAN, content : {NoContent, 1},
     text : {NoText}]

ExemptRequests ==
    {rq \in [isGroup : BOOLEAN, groupFound : BOOLEAN, groupAdmin : BOOLEAN,
             botAdmin : {FALSE}, premium : {FALSE}, userBanned : {FALSE},
             groupBanned : {FALSE}, nargs : {1}] :
        /\ rq.groupFound = rq.isGroup
        /\ rq.groupAdmin = rq.isGroup}

NextExempt ==
    \/ /\ \E context \in ExemptContexts, checkAdmins \in BOOLEAN :
              CheckSpamCallIn(context, [Healthy EXCEPT !.checkAdmins = checkAdmins])
       /\ Len(checkedLog') <= MaxExemptCalls
    \/ /\ \E rq \in ExemptRequests : HandleCommand("kick", rq)
       /\ Len(checkedLog') <= MaxExemptCalls
       /\ Len(allowedLog'["kick"]) <= MaxExemptCalls
    \/ AddToWhitelist
    \/ RemoveFromWhitelist
    \/ Tick(LongPause, LongPause)

SpecExempt == InitAnyOwner /\ [][NextExempt]_vars

\* The subject's frequency, content and violation histories.
SpamHistories == {SpamFreqKey, SpamContentKey, SpamViolationsKey}

\* The call of this step reached the anti-spam check for an exempt subject.
C25_ExemptCall ==
    \/ /\ last'.op = "checkSpam"
       /\ \/ Sender \in whitelistedUsers
          \/ /\ last'.context.isGroup
             /\ last'.context.isGroupAdmin
             /\ ~last'.env.checkAdmins
    \/ /\ last'.op = "handleCommand"
       /\ \E i \in 1..Len(last'.trace) : last'.trace[i] = "antiSpam"
       /\ (Sender \in whitelistedUsers \/ last'.groupAdmin)

C25_Step ==
    C25_ExemptCall =>
        /\ \A k \in SpamHistories : cacheStore'[k] = cacheStore[k]
        /\ checkedLog' = checkedLog
        /\ IF last'.op = "checkSpam" THEN ~last'.isSpam
           ELSE last'.failed # "antiSpam"

\* C25: on the direct and on the dispatcher's call path, a whitelisted subject,
\* and a group admin writing in a group while admin checking is not enabled,
\* is answered isSpam = false, no heuristic is evaluated and the subject's
\* frequency, content and violation histories stay as they were.
C25_Exemptions == [][C25_Step]_vars

(***************************************************************************)
(* The state of a message object: none (not yet created), queued,          *)
(* processing (handed to the execute hook, not called back), completed or  *)
(* failed (the terminal event has been emitted).                           *)
(***************************************************************************)
MessageState(o, m, infl, ev) ==
    IF m[o] = NoMsg THEN "none"
    ELSE IF ev[m[o].id].completed > 0 THEN "completed"
    ELSE IF ev[m[o].id].failed > 0 THEN "failed"
    ELSE IF infl[o] > 0 THEN "processing"
    ELSE "queued"

C26_Transition(o) ==
    LET before == MessageState(o, msgs, inflight, events)
        after == MessageState(o, msgs', inflight', events')
        dispatched == msgs'[o].attempts = msgs[o].attempts + 1 /\ inflight'[o] = 1
        untouched == /\ msgs'[o].attempts = msgs[o].attempts
                     /\ inflight'[o] = inflight[o]
                     /\ events'[msgs[o].id] = events[msgs[o].id]
    IN  CASE before = "none" ->
                \/ after = "none"
                \/ after = "queued" /\ msgs'[o].attempts = 0
                \/ after = "processing" /\ msgs'[o].attempts = 1 /\ inflight'[o] = 1
          [] before = "queued" ->
                \/ after = "queued" /\ untouched
                \/ after = "processing" /\ dispatched
          [] before = "processing" ->
                \/ after = "processing" /\ untouched
                \/ after = "completed" /\ msgs'[o].attempts = msgs[o].attempts
                \/ /\ after = "queued"
                   /\ msgs[o].attempts < msgs[o].maxRetries
                   /\ msgs'[o].attempts = msgs[o].attempts
                   /\ o \in Range(queue')
                \/ /\ after = "failed"
                   /\ msgs[o].attempts >= msgs[o].maxRetries
                   /\ msgs'[o].attempts = msgs[o].attempts
          [] OTHER ->
                /\ after = before
                /\ untouched
                /\ o \notin Range(queue) /\ o \notin Range(queue')
                /\ inflight[o] = 0

C26_Step == \A o \in Objs : C26_Transition(o)

\* C26: a message is queued, then processing, and from processing completed,
\* queued again (only with attempts < maxRetries) or failed (only with
\* attempts >= maxRetries); each dispatch from queued adds one to attempts; a
\* completed or failed message is out of the queue, has nothing in flight and
\* is never dispatched or reported again.
C26_StateMachine == [][C26_Step]_vars

\* The message objects this step hands to the execute hook.
Dispatched == {o \in Objs : inflight'[o] > inflight[o]}

C27_Step == \A o \in Dispatched : msgs'[o].scheduledFor <= 0

\* C27: a message is handed to the execute hook only when its scheduledFor
\* (enqueue time + delay, or failure time + backoff after a retry) is not
\* later than the current time, also in the drain addMessage triggers.
C27_NoEarlyDispatch == [][C27_Step]_vars

\* A message enqueued with a delay, failed once and rescheduled with a backoff,
\* has been dispatched a second time.
C27_Witness ==
    \E o \in Objs :
        /\ msgs[o] # NoMsg
        /\ msgs[o].delay > 0
        /\ msgs[o].attempts = 2
        /\ inflight[o] > 0
        /\ lastWait[o] > 0

\* The list is in the order (priority descending, scheduledFor ascending).
Sorted(q, m) ==
    \A i \in 1..(Len(q) - 1) :
        \/ m[q[i]].priority > m[q[i + 1]].priority
        \/ /\ m[q[i]].priority = m[q[i + 1]].priority
           /\ m[q[i]].scheduledFor <= m[q[i + 1]].scheduledFor

\* This step is an addMessage call, or a handleFailure call that rescheduled.
C28_Sorts ==
    \/ Cardinality({o \in Objs : msgs'[o] # NoMsg}) > Cardinality(Allocated)
    \/ \E i \in Objs : events'[i].retry > events[i].retry

C28_Step == C28_Sorts => Sorted(queue', msgs')

\* C28: after every addMessage and after every retry rescheduling of
\* handleFailure the queue's list is sorted by priority descending and, among
\* equal priorities, by scheduledFor ascending.
C28_QueueSorted == [][C28_Step]_vars

\* A rescheduled message stands behind a message of its priority that was
\* enqueued after it, and a message of higher priority enqueued last stands first.
C28_Witness ==
    \/ \E i, j \in 1..Len(queue) :
          /\ i < j
          /\ queue[i] > queue[j]
          /\ msgs[queue[i]].priority = msgs[queue[j]].priority
          /\ events[msgs[queue[j]].id].retry > 0
          /\ msgs[queue[i]].scheduledFor < msgs[queue[j]].scheduledFor
    \/ /\ Len(queue) = MaxMsgsOrder
       /\ queue[1] = MaxMsgsOrder
       /\ msgs[queue[1]].priority > msgs[queue[MaxMsgsOrder]].priority

C29_Step ==
    (last'.op = "handleCommand" /\ last'.failed \in {"rateLimit", "antiSpam", "args"})
        => cooldowns' = cooldowns

\* C29: a handleCommand call that the rate-limit gate, the anti-spam gate or
\* the argument-count gate rejects leaves the (command, subject) cooldown
\* entries as they were; only a call that passes every gate writes one.
C29_CooldownOnPermittedUse == [][C29_Step]_vars

\* C30: when the command's execute has completed and persisting the command
\* log or the usage counters fails, the dispatch is a success: no error message
\* is sent to the chat, the command's error counter stays and its usage counter
\* has gone up by exactly one.
C30_BestEffortBookkeeping ==
    (last.op = "handleCommand" /\ last.fault = "log" /\ last.invoked) =>
        /\ last.sent = 0
        /\ last.errors = 0
        /\ last.used = 1
        /\ last.outcome = "true"

\* The stored timestamps of a type that are less than the type's window old.
StoredInWindow(c, type) ==
    SelectSeq(CacheGet(c, RateKey(type), <<>>),
              LAMBDA ts : 0 - ts < CustomLimits[type].window)

\* C34: a checkLimit call that answers allowed=false leaves the stored
\* timestamp list of the type as it was and reports as resetTime the time until
\* the oldest stored in-window timestamp is one window old, more than 0 and at
\* most the window; and a call is refused only while max stored timestamps are
\* inside the window, so the subject is admitted again once the oldest expires.
C34_Step ==
    last'.op = "checkLimit" =>
        LET type == last'.type
            inWindow == StoredInWindow(cacheStore, type)
        IN  /\ last'.allowed = (Len(inWindow) < CustomLimits[type].max)
            /\ ~last'.allowed =>
                  /\ cacheStore'[RateKey(type)] = cacheStore[RateKey(type)]
                  /\ last'.resetTime = inWindow[1] + CustomLimits[type].window
                  /\ last'.resetTime > 0
                  /\ last'.resetTime <= CustomLimits[type].window

C34_RejectKeepsWindow == [][C34_Step]_vars

\* A call was refused with two stored timestamps of different ages, and it
\* reported the time until the older one expires.
C34_Witness ==
    /\ last.op = "checkLimit"
    /\ last.type = "steady"
    /\ ~last.allowed
    /\ cacheStore[RateKey("steady")] # Missing
    /\ cacheStore[RateKey("steady")].val = <<0 - 2 * TickMs, 0 - TickMs>>
    /\ last.resetTime = CustomLimits.steady.window - 2 * TickMs

(***************************************************************************)
(* The id specification: addMessage with ids the caller supplies, which    *)
(* may repeat an id that is already in the queue, a hook that succeeds or  *)
(* fails, the deferred drains, the health check, persistQueue and          *)
(* restoreQueue, and the passing of time.                                  *)
(***************************************************************************)
MaxMsgsIds == 2
SuppliedIds == {1, 2}

NextIds ==
    \/ \E id \in SuppliedIds, dl \in {0, 1} :
          /\ NextObj <= MaxMsgsIds
          /\ AddMessage(id, 1, dl, 2)
    \/ \E o \in Objs, ok \in BOOLEAN : Callback(o, ok)
    \/ RunImmediate
    \/ RunTimer
    \/ HealthCheck
    \/ TickQ
    \/ PersistQueue
    \/ RestoreQueue

SpecIds == InitNoOwner /\ [][NextIds]_vars

\* The dispatches of a message id that have not called back.
InFlightOf(id) ==
    SumUpTo([o \in Objs |-> IF msgs[o] # NoMsg /\ msgs[o].id = id THEN inflight[o] ELSE 0],
            NObj)

\* C39: no message id has two dispatches outstanding at once.
C39_NoDoubleExecution == \A id \in SuppliedIds : InFlightOf(id) <= 1

\* C40: while isTemporaryBanned reports the sender banned, a checkLimit call for
\* the sender answers allowed=false and a handleCommand call for the sender
\* invokes no command handler.
C40_Step ==
    IsTemporaryBanned(cacheStore).banned =>
        /\ last'.op = "checkLimit" => ~last'.allowed
        /\ last'.op = "handleCommand" => ~last'.invoked

C40_BanEnforced == [][C40_Step]_vars

\* The violation records that are less than an hour old.
RecentSpamViolations(c) ==
    SelectSeq(CacheGet(c, SpamViolationsKey, <<>>),
              LAMBDA v : 0 - v.timestamp < SpamViolationWindow)

\* The frequency entries that are inside the frequency window.
RecentFrequency(c) ==
    SelectSeq(CacheGet(c, SpamFreqKey, <<>>), LAMBDA ts : 0 - ts < SpamTimeWindow)

\* C32 as stated: a checkSpam call that answers isSpam=false leaves every cache
\* entry of the subject as it was, and one that answers isSpam=true changes the
\* violation history alone, by one record appended.
C32_StatedStep ==
    last'.op = "checkSpam" =>
        IF last'.isSpam
        THEN /\ \A k \in CacheKeys \ {SpamViolationsKey} : cacheStore'[k] = cacheStore[k]
             /\ CacheGet(cacheStore', SpamViolationsKey, <<>>)
                   = Append(CacheGet(cacheStore, SpamViolationsKey, <<>>),
                            [timestamp |-> 0, severity |-> last'.severity])
        ELSE cacheStore' = cacheStore

C32_AsStated == [][C32_StatedStep]_vars

\* C32: a checkSpam call changes nothing but the subject's frequency, content
\* and violation histories.  A call that evaluates the heuristics adds one
\* entry to the in-window frequency history, whatever it answers; the content
\* history changes only by the text of the call being added; the violation
\* history is left as it was by a call that answers isSpam=false, and a call
\* that answers isSpam=true replaces it by its records of the trailing hour
\* with exactly one record appended.  An exempt call changes nothing.
C32_Step ==
    last'.op = "checkSpam" =>
        /\ \A k \in CacheKeys \ SpamHistories : cacheStore'[k] = cacheStore[k]
        /\ ~last'.evaluated => cacheStore' = cacheStore
        /\ last'.evaluated =>
              CacheGet(cacheStore', SpamFreqKey, <<>>) = Append(RecentFrequency(cacheStore), 0)
        /\ \/ cacheStore'[SpamContentKey] = cacheStore[SpamContentKey]
           \/ /\ last'.context.content # NoContent
              /\ cacheStore'[SpamContentKey] # Missing
              /\ LET kept == cacheStore'[SpamContentKey].val
                 IN  kept[Len(kept)] = [content |-> last'.context.content, timestamp |-> 0]
        /\ IF last'.isSpam
           THEN CacheGet(cacheStore', SpamViolationsKey, <<>>)
                   = Append(RecentSpamViolations(cacheStore),
                            [timestamp |-> 0, severity |-> last'.severity])
           ELSE cacheStore'[SpamViolationsKey] = cacheStore[SpamViolationsKey]

C32_SideEffects == [][C32_Step]_vars

\* A call was answered isSpam=true for a repeated text, the second detection on
\* record, with the frequency history grown by the call as well.
C32_Witness ==
    /\ last.op = "checkSpam"
    /\ last.isSpam
    /\ last.indicators = <<"repeated_content">>
    /\ Len(CacheGet(cacheStore, SpamViolationsKey, <<>>)) = 2
    /\ Len(CacheGet(cacheStore, SpamFreqKey, <<>>)) >= 2

(***************************************************************************)
(* The router specification: inbound messages of a group admin, plain text *)
(* or a kick or ping command, handled by the message router one after the  *)
(* other, in rapid succession or a long pause apart.                       *)
(***************************************************************************)
MaxRouterChecks == 7       \* checkSpam calls followed within one frequency window
MaxRouterDetections == 2   \* spam detections on record for the sender

RouterRequests ==
    [isGroup : {TRUE}, groupFound : {TRUE}, groupAdmin : {TRUE}, botAdmin : {FALSE},
     premium : {FALSE}, userBanned : {FALSE}, groupBanned : {FALSE}, nargs : {1}]

NextRouter ==
    \/ /\ \E isCommand \in BOOLEAN, name \in {"kick", "ping"}, rq \in RouterRequests :
              HandleIncomingMessage(isCommand, name, rq)
       /\ Len(checkedLog') <= MaxRouterChecks
       /\ Len(CacheGet(cacheStore', SpamViolationsKey, <<>>)) <= MaxRouterDetections
    \/ Tick(LongPause, LongPause)

SpecRouter == InitNoOwner /\ [][NextRouter]_vars

\* C38: an inbound message handled by the router adds exactly one entry to the
\* sender's frequency history, and while the sender has sent at most 5 inbound
\* messages within 10 seconds the message is not flagged by the router's check
\* and no command is refused at the anti-spam gate.
C38_Step ==
    last'.op = "handleIncomingMessage" =>
        /\ CacheGet(cacheStore', SpamFreqKey, <<>>) = Append(RecentFrequency(cacheStore), 0)
        /\ Len(inboundLog') <= SpamMaxMessages =>
              (~last'.flagged /\ last'.failed # "antiSpam")

C38_OneEntryPerMessage == [][C38_Step]_vars

(***************************************************************************)
(* The alias specification: handleCommand for the ping command (cooldown   *)
(* 3 s) under its name and under its alias p, from a sender in a private   *)
(* chat who is banned or not, with a handler that throws or returns, one   *)
(* second or a long pause passing between calls.                           *)
(***************************************************************************)
MaxAliasUses == 3   \* calls followed while this many passed the rate-limit gate in a window
AliasTick == 1000

AliasSpellings == {"ping"} \cup Commands["ping"].aliases

AliasRequests ==
    [isGroup : {FALSE}, groupFound : {FALSE}, groupAdmin : {FALSE}, botAdmin : {FALSE},
     premium : {FALSE}, userBanned : BOOLEAN, groupBanned : {FALSE}, nargs : {0}]

AliasEnvs == {NoFault, [NoFault EXCEPT !.fault = "execute"]}

NextAlias ==
    \/ /\ \E name \in AliasSpellings, rq \in AliasRequests, env \in AliasEnvs :
              HandleCommandIn(name, rq, env)
       /\ Len(allowedLog'["ping"]) + Len(allowedLog'["p"]) <= MaxAliasUses
    \/ Tick(AliasTick, CooldownHorizon)
    \/ Tick(LongPause, LongPause)

SpecAlias == InitNoOwner /\ [][NextAlias]_vars

\* C31: a handleCommand call whose command handler throws adds exactly one to
\* the error counter of the command and nothing to its usage counter, under the
\* command's name and under its alias; a call whose handler is not run or
\* returns adds nothing to the error counter.
C31_Step ==
    last'.op = "handleCommand" =>
        IF last'.invoked /\ last'.fault = "execute"
        THEN last'.errors = 1 /\ last'.used = 0
        ELSE last'.errors = 0

C31_ErrorAccounting == [][C31_Step]_vars

\* C37: a handleCommand call that reaches the cooldown gate of a command with a
\* cooldown is refused there when the sender passed that gate less than the
\* cooldown ago under any spelling of the command, its name or an alias.
C37_Step ==
    (/\ last'.op = "handleCommand"
     /\ \E i \in 1..Len(last'.trace) : last'.trace[i] = "cooldown"
     /\ last'.command.cooldown > 0
     /\ \E s \in {last'.command.name} \cup last'.command.aliases :
           /\ cooldowns[s] # Unset
           /\ 0 - cooldowns[s] < last'.command.cooldown * 1000)
    => last'.failed = "cooldown"

C37_CooldownPerCommand == [][C37_Step]_vars

(***************************************************************************)
(* The interleaving specification: two callers make checkLimit calls for   *)
(* the same sender and type; each call is suspended at its await of        *)
(* cache.get and resumed later, in any order.  Time passes while no call   *)
(* is in progress.                                                         *)
(***************************************************************************)
NextInterleave ==
    \/ \E p \in Callers, type \in DOMAIN CustomLimits : CheckLimitBegin(p, type)
    \/ \E p \in Callers : CheckLimitEnd(p)
    \/ /\ \A p \in Callers : calls[p] = Idle
       /\ Tick(TickMs, RateHorizon)

SpecInterleave == InitNoOwner /\ [][NextInterleave]_vars

\* C33: a checkLimit call works from the list the cache holds when it writes
\* (no other call has written the key since it read it), and the allowed
\* requests of a type inside its window never number more than max.
C33_Step ==
    last'.op = "checkLimit" =>
        LET type == last'.type
        IN  /\ last'.read = last'.stored
            /\ Cardinality({i \in 1..Len(allowedLog'[type]) :
                               0 - allowedLog'[type][i] < CustomLimits[type].window})
                  <= CustomLimits[type].max

C33_AtomicCheck == [][C33_Step]_vars

(***************************************************************************)
(* The backlog specification: two named queues.  Messages are added to the *)
(* second queue, which is followed while it holds at most 1000 of them,    *)
(* and to the first, whose hook succeeds or fails; the deferred drains and *)
(* the health check run and time passes.                                   *)
(***************************************************************************)
MaxMsgsBacklog == 1

NextBacklog ==
    \/ /\ otherPending < BacklogThreshold
       /\ AddMessageOther
    \/ \E dl \in {0, 1} :
          /\ NextObj <= MaxMsgsBacklog
          /\ AddMessage(NextObj, 1, dl, 1)
    \/ \E o \in Objs, ok \in BOOLEAN : Callback(o, ok)
    \/ RunImmediate
    \/ HealthCheck
    \/ TickQ

SpecBacklog == InitNoOwner /\ [][NextBacklog]_vars

\* C35: a health check raises queue:backlog only if one of the named queues
\* holds more than 1000 pending messages.
C35_Step ==
    (backlog' /\ ~backlog) =>
        (Len(queue) > BacklogThreshold \/ otherPending > BacklogThreshold)

C35_BacklogPerQueue == [][C35_Step]_vars

(***************************************************************************)
(* The command registry.  A command file exports its descriptor as the     *)
(* commands directory has it, or one that lacks the execute function, the  *)
(* name or the aliases; the loader adds category and filePath.             *)
(***************************************************************************)
Modules(file) ==
    {Commands[file],
     [Commands[file] EXCEPT !.execute = FALSE],
     [Commands[file] EXCEPT !.name = NoName],
     [Commands[file] EXCEPT !.aliases = {}]}

\* The key a Collection files a name under.
KeyOf(name) == IF name = NoName THEN Undefined ELSE name

\* !command.name || !command.execute
MissingNameOrExecute(command) == command.name = NoName \/ ~command.execute

\* loadCommands: files gives what each command file exports.
LoadCommands(files) ==
    /\ IF isInitialized
       THEN /\ UNCHANGED <<commands, aliases, isInitialized>>
            /\ last' = [op |-> "loadCommands", loaded |-> {}]
       ELSE \E loaded \in {{f \in DOMAIN files : ~MissingNameOrExecute(files[f])}} :
               /\ commands' = [k \in RegistryKeys |->
                                 IF \E f \in loaded : files[f].name = k
                                 THEN files[CHOOSE f \in loaded : files[f].name = k]
                                 ELSE NoCommand]
               /\ aliases' = [k \in RegistryKeys |->
                                IF \E f \in loaded : k \in files[f].aliases
                                THEN files[CHOOSE f \in loaded : k \in files[f].aliases].name
                                ELSE NoName]
               /\ isInitialized' = TRUE
               /\ last' = [op |-> "loadCommands", loaded |-> loaded]
    /\ UNCHANGED <<qvars, dvars_but_last, bvars, calls, inboundLog>>

\* reloadCommand(commandName): newCommand is what the file of the command
\* exports now, throws says that requiring it fails.
ReloadCommand(commandName, newCommand, throws) ==
    \E command \in {GetCommand(commandName)} :
       /\ IF command = NoCommand \/ throws
          THEN /\ UNCHANGED <<commands, aliases>>
               /\ last' = [op |-> "reloadCommand", commandName |-> commandName,
                           result |-> FALSE, command |-> command,
                           newCommand |-> NoCommand]
          ELSE /\ newCommand \in Modules(command.filePath)
               /\ commands' = [[commands EXCEPT ![KeyOf(command.name)] = NoCommand]
                                  EXCEPT ![KeyOf(newCommand.name)] = newCommand]
               /\ aliases' = [k \in RegistryKeys |->
                                IF k \in newCommand.aliases THEN KeyOf(newCommand.name)
                                ELSE IF k \in command.aliases THEN NoName
                                ELSE aliases[k]]
               /\ last' = [op |-> "reloadCommand", commandName |-> commandName,
                           result |-> TRUE, command |-> command,
                           newCommand |-> newCommand]
       /\ UNCHANGED <<qvars, dvars_but_last, bvars, isInitialized, calls, inboundLog>>

\* The state after construction: nothing is loaded yet.
InitUnloaded ==
    /\ InitQ
    /\ ownerNumbers = {}
    /\ whitelistedUsers = {}
    /\ cooldowns = [n \in Spellings |-> Unset]
    /\ commands = [k \in RegistryKeys |-> NoCommand]
    /\ aliases = [k \in RegistryKeys |-> NoName]
    /\ isInitialized = FALSE
    /\ calls = [p \in Callers |-> Idle]
    /\ inboundLog = <<>>
    /\ cacheStore = [k \in CacheKeys |-> Missing]
    /\ allowedLog = [t \in RateTypes |-> <<>>]
    /\ checkedLog = <<>>
    /\ last = [op |-> "none"]

NextRegistry ==
    \/ \E files \in [CmdNames -> UNION {Modules(f) : f \in CmdNames}] :
          /\ \A f \in CmdNames : files[f] \in Modules(f)
          /\ LoadCommands(files)
    \/ \E commandName \in Spellings, throws \in BOOLEAN :
          \E newCommand \in UNION {Modules(f) : f \in CmdNames} \cup {NoCommand} :
             /\ (GetCommand(commandName) = NoCommand \/ throws) <=> newCommand = NoCommand
             /\ ReloadCommand(commandName, newCommand, throws)

SpecRegistry == InitUnloaded /\ [][NextRegistry]_vars

\* C36: after any sequence of loadCommands and reloadCommand, every alias in
\* the alias table resolves through getCommand to a registered command that
\* declares it, a registered name resolves to the descriptor most recently
\* loaded for it, aliases the new descriptor dropped no longer resolve, and
\* no registered descriptor lacks a name or an execute function.
C36_RegistryConsistent ==
    /\ \A a \in RegistryKeys :
          aliases[a] # NoName =>
             /\ GetCommand(a) # NoCommand
             /\ a \in GetCommand(a).aliases
    /\ \A k \in RegistryKeys :
          commands[k] # NoCommand => ~MissingNameOrExecute(commands[k])
    /\ (last.op = "reloadCommand" /\ last.result) =>
          /\ last.newCommand.name # NoName =>
                GetCommand(last.newCommand.name) = last.newCommand
          /\ \A a \in last.command.aliases \ last.newCommand.aliases :
                GetCommand(a) = NoCommand

====
